---- MODULE Spec2Model ----
(***************************************************************************)
(* Verification model of the Personal_Assistant repository.                *)
(*                                                                         *)
(* The module holds several state machines, one per component, that share  *)
(* one variable list.  Each specification drives one component and keeps   *)
(* the variables of the others at their idle values:                       *)
(*   SpecRetry    async_utils.async_retry          (r_ variables)          *)
(*   SpecLLM      llm_manager.get_llm_response     (l_ variables)          *)
(*   SpecSession  llm_manager session lifecycle    (s_ variables)          *)
(*   SpecApp      main_standalone.py / main.py     (a_ variables)          *)
(***************************************************************************)
EXTENDS Integers, Sequences, FiniteSets, TLC

VARIABLES
    \* ---- async_retry wrapper (src/async_utils.py) ----
    r_pc,          \* "idle" | "attempt" | "sleeping" | "returned" | "raised"
    r_retries,     \* the decorator's retries argument
    r_backoff,     \* the decorator's backoff argument
    r_jitter,      \* the decorator's jitter argument
    r_attempt,     \* loop variable of "for attempt in range(1, retries + 1)"
    r_outcomes,    \* history: the outcome of every call of func, in order
    r_sleeps,      \* history: every asyncio.sleep, as [base, jittered]
    r_last,        \* last_exception: attempt whose exception is held, 0 = None
    r_result,      \* call whose value the wrapper returned, 0 = nothing
    r_raised       \* attempt whose exception left the wrapper, 0 = nothing

retryVars == <<r_pc, r_retries, r_backoff, r_jitter, r_attempt, r_outcomes,
               r_sleeps, r_last, r_result, r_raised>>

VARIABLES
    \* ---- get_llm_response (src/llm_manager.py) ----
    l_pc,          \* "idle" | "start" | "loop" | "awaiting" | "done"
    l_local_only,  \* Config.LOCAL_ONLY
    l_gemini_key,  \* Config.GEMINI_API_KEY is set
    l_ollama_url,  \* Config.OLLAMA_API_URL is set
    l_provider,    \* the provider argument
    l_callback,    \* a status_callback was given
    l_oracle,      \* what each backend does when its function is awaited
    l_providers,   \* the local list providers, after step 2
    l_idx,         \* position of the for loop in providers
    l_started,     \* history: providers whose function was awaited
    l_events,      \* history: what status_callback received
    l_result       \* the returned value, NoResult while running

llmVars == <<l_pc, l_local_only, l_gemini_key, l_ollama_url, l_provider,
             l_callback, l_oracle, l_providers, l_idx, l_started, l_events,
             l_result>>

VARIABLES
    \* ---- shared HTTP sessions (src/llm_manager.py) ----
    s_session,     \* _gemini_session / _ollama_session: 0 = None, else an id
    s_init,        \* _gemini_init / _ollama_init
    s_lock,        \* _session_lock: NoHolder, or the caller holding it
    s_made,        \* history: ids of the ClientSession objects made, per backend
    s_closed,      \* ids of the sessions whose close() has completed
    s_nextId,      \* id of the next ClientSession object
    s_pc,          \* position of each get-or-create caller
    s_backend,     \* which getter the caller runs
    s_ret,         \* what the caller's call returned, NotReturned before
    s_epoch,       \* history: close_sessions() calls completed at call time
    c_pc,          \* position of the close_sessions() coroutine
    c_closes       \* number of close_sessions() calls started

sessVars == <<s_session, s_init, s_lock, s_made, s_closed, s_nextId, s_pc,
              s_backend, s_ret, s_epoch, c_pc, c_closes>>

VARIABLES
    \* ---- AssistantApp (src/main_standalone.py, src/main.py) ----
    a_variant,        \* "standalone" (main_standalone.py) | "compat" (main.py)
    a_running,        \* self.running
    a_shutdown_event, \* self.shutdown_event is set (main.py only)
    a_queue,          \* self.input_queue, a FIFO of [type, seq]
    a_nextSeq,        \* number of put() calls so far: the next item's seq
    a_widget,         \* self.widget: "none" | "live" | "destroyed"
    a_full_gui,       \* self.full_gui: "none" | "live" | "quit"
    a_tray,           \* self.system_tray: "none" | "started" | "stopped"
    a_thread,         \* position of the assistant thread
    a_current,        \* the event the main loop is handling, NoItem if none
    a_orphans,        \* executor threads still blocked in input_queue.get
    a_detector,       \* self.detector: "none" | "on" | "off"
    a_processor,      \* self.processor: "none" | "on" | "off"
    a_tts,            \* self.tts_engine: "none" | "on" | "off"
    a_widgetState,    \* last state sent with widget.set_state
    a_trayIcon,       \* last state sent with system_tray.update_icon
    a_handled,        \* history: seq of every event the main loop took
    a_raised,         \* the thread's body ended in its top-level except
    a_shutdownCalls,  \* number of shutdown() invocations so far
    a_shutdownError,  \* an exception other than SystemExit left shutdown()
    a_preload         \* the preload_models task: none | created | loading | done

appVars == <<a_variant, a_running, a_shutdown_event, a_queue, a_nextSeq,
             a_widget, a_full_gui, a_tray, a_thread, a_current, a_orphans,
             a_detector, a_processor, a_tts, a_widgetState, a_trayIcon,
             a_handled, a_raised, a_shutdownCalls, a_shutdownError,
            a_preload>>

VARIABLES
    \* ---- AppManager (src/app_scanner.py) ----
    k_now,         \* datetime.now(), in hours
    k_cache,       \* apps_cache.json: [exists, mtime, content]
    k_regtime,     \* modification time of each registry Uninstall key
    k_regok,       \* whether the key can be opened and stat'ed
    k_mem,         \* what memory_manager.get_all_apps() returns
    k_built,       \* an AppManager has been constructed
    k_apps,        \* self.apps
    k_op,          \* last operation: "none" | "init" | "rescan"
    k_result,      \* what the last operation returned or raised
    k_scans,       \* scan sources the last operation invoked, in order
    k_wrote,       \* the last operation wrote the cache file
    k_pre          \* history: file, clock and registry when the load began

scanVars == <<k_now, k_cache, k_regtime, k_regok, k_mem, k_built, k_apps,
              k_op, k_result, k_scans, k_wrote, k_pre>>

VARIABLES
    \* ---- SuggestionEngine (src/suggestion_engine.py) ----
    g_hour,        \* now.hour
    g_wday,        \* now.weekday()
    g_pred,        \* what predictor.predict returns (or that it raises)
    g_freq,        \* what memory_manager.get_frequent_commands() returns
    g_freq3,       \* what memory_manager.get_frequent_commands(3) returns
    g_rem,         \* number of reminders get_reminders returns
    g_fail,        \* the memory store call that raises, "none" if none does
    g_pc,          \* "off" | "ready" | "returned" | "raised"
    g_result       \* the list generate_suggestions() returned

sugVars == <<g_hour, g_wday, g_pred, g_freq, g_freq3, g_rem, g_fail, g_pc,
             g_result>>

VARIABLES
    \* ---- WebAgent (src/web_agent.py) ----
    w_total_gb,       \* self.total_ram_gb
    w_avail_mb,       \* psutil.virtual_memory().available, in MB
    w_mode,           \* self.mode
    w_max_memory_mb,  \* self.max_memory_mb
    w_max_concurrent, \* self.max_concurrent
    w_vision,         \* self.vision_enabled
    w_up,             \* history: the last upgrade_mode call and their number
    w_init,           \* self.is_initialized
    w_cleanup,        \* self._cleanup_task: "none" | "running" | "closing"
                      \* (the loop is in close()) | "finished" | "cancelled"
    w_active,         \* self.active_tasks
    w_playwright,     \* _playwright: 0 = None, else an object id
    w_browser,        \* _playwright_browser: 0 = None, else an object id
    w_context,        \* _browser_context: 0 = None, else an object id
    w_nextObj,        \* id of the next object created
    w_engines,        \* history: number of browser engines launched
    w_pc,             \* position of each caller of navigate()/initialize()
    w_op,             \* the operation the caller runs
    w_ret,            \* what the caller's last call returned
    w_why,            \* history: why the last call returned no page / False
    w_calls,          \* number of calls started
    w_cpc,            \* position of the close() coroutine
    w_closes,         \* number of close() calls started
    w_closed          \* history: times close() set is_initialized = False

webHost == <<w_total_gb, w_avail_mb>>
webMode == <<w_mode, w_max_memory_mb, w_max_concurrent, w_vision, w_up>>
webFlags == <<w_init, w_cleanup>>
webBrowser == <<w_playwright, w_browser, w_context, w_nextObj, w_engines>>
webCallers == <<w_pc, w_op, w_ret, w_why, w_calls>>
webCloser == <<w_cpc, w_closes, w_closed>>

webVars == <<webHost, webMode, webFlags, w_active, webBrowser, webCallers,
             webCloser>>

VARIABLES
    \* ---- WakeWordDetector (src/wake_word.py) ----
    d_running,      \* self.running
    d_thread,       \* self.thread: "none" | "alive" | "stopping" | "exited"
    d_hooked,       \* the ctrl+space hot-key is registered
    d_hotkey,       \* self._hotkey_pressed
    d_now,          \* time.time(), in tenths of a second
    d_last_trigger, \* last_trigger of the running _listen_loop
    d_q,            \* audio_q.qsize() of the running _listen_loop
    d_cb,           \* the audio callback: "idle" | "blocked" in audio_q.put
    d_run,          \* history: number of _listen_loop threads started
    d_held,         \* history: a high score was debounced since the last fire
    d_fireAt,       \* history: when the last wake event was pushed
    d_lastFire      \* history: the last wake event pushed

detVars == <<d_running, d_thread, d_hooked, d_hotkey, d_now, d_last_trigger,
             d_q, d_cb, d_run, d_held, d_fireAt, d_lastFire>>

VARIABLES
    \* ---- FirstRunWizard (src/first_run_wizard.py) ----
    wz_env,         \* Path(".env").exists()
    wz_marker,      \* (Path("cache") / ".first_run_complete").exists()
    wz_open,        \* a wizard window exists and its mainloop runs
    wz_page,        \* self.current_page
    wz_key,         \* self.config["gemini_api_key"]
    wz_runs,        \* history: number of should_run_wizard() calls
    wz_launches,    \* history: assistant processes launched by finish()
    wz_chk,         \* history: the last should_run_wizard() call
    wz_fin,         \* history: the last finish() call
    wz_start,       \* AssistantApp.start(): none | wizard | widget | returned
    wz_base         \* history: wz_launches when start() was called

wizVars == <<wz_env, wz_marker, wz_open, wz_page, wz_key, wz_runs,
             wz_launches, wz_chk, wz_fin, wz_start, wz_base>>

VARIABLES
    \* ---- MacroSystem (src/macro_system.py, src/macros.py) ----
    m_variant,      \* which of the two modules the MacroSystem class is from
    m_name,         \* the argument of the current run()
    m_pc,           \* position of run(): idle | speak | exec | sleep | done
    m_i,            \* index of the current step of the for loop
    m_clock,        \* time since run() was called, in tenths of a second
    m_log,          \* history: begin/end of every proc.execute of this run
    m_runs          \* history: number of run() calls

macVars == <<m_variant, m_name, m_pc, m_i, m_clock, m_log, m_runs>>

VARIABLES
    \* ---- FloatingWidget (src/floating_widget.py) ----
    f_queue,        \* self.update_queue, a FIFO of [cmd, arg]
    f_state,        \* self.state
    f_pc,           \* the UI thread in process_updates: idle | loop | apply
    f_cur,          \* the update taken by get_nowait and not yet applied
    f_puts,         \* history: number of updates put on the queue
    f_issued,       \* history: the arguments of the set_state calls
    f_applied       \* history: the states process_updates assigned

fwVars == <<f_queue, f_state, f_pc, f_cur, f_puts, f_issued, f_applied>>

VARIABLES
    \* ---- get_gemini_response / get_ollama_response (src/llm_manager.py) ----
    b_provider,     \* which decorated function is called
    b_key,          \* Config.GEMINI_API_KEY is set
    b_models,       \* number of entries of Config.<PROVIDER>_MODELS
    b_pc,           \* enter | request | sleeping | returned | raised
    b_attempt,      \* the wrapper's loop variable
    b_model,        \* index of the model of the for loop in the body
    b_requests,     \* history: [attempt, model, outcome] of every session.post
    b_sleeps,       \* history: every asyncio.sleep of the wrapper
    b_result        \* what the wrapper returned: "none" | "reply" | "None"

bkVars == <<b_provider, b_key, b_models, b_pc, b_attempt, b_model,
            b_requests, b_sleeps, b_result>>

vars == <<retryVars, llmVars, sessVars, appVars, scanVars, sugVars, webVars,
          detVars, wizVars, macVars, fwVars, bkVars>>

(***************************************************************************)
(* Bounds of the model.                                                    *)
(***************************************************************************)
MaxRetries == 4
NumCallers == 3
MaxCloses == 1
MaxEvents == 3
MaxOrphans == 1
MaxShutdowns == 2
NumPaths == 2
MaxClock == 36
TickHours == 12
MaxReminders == 2
MaxWebCalls == 2
MaxWebCloses == 1
MaxUpgrades == 4
MaxStarts == 2
MaxWakeClock == 40
MaxRuns == 2
MaxMacroRuns == 2
MaxUpdates == 4
MaxModels == 2

(***************************************************************************)
(* async_retry (src/async_utils.py)                                        *)
(***************************************************************************)
RECURSIVE Pow(_, _)
Pow(b, e) == IF e = 0 THEN 1 ELSE b * Pow(b, e - 1)

\* sleep_time = backoff ** attempt, plus random.uniform(0, 1) under jitter
SleepTime(backoff, attempt, jitter) ==
    [base |-> Pow(backoff, attempt), jittered |-> jitter]

AfterFailureGivesUpEarly(attempt, retries) ==
    IF attempt + 1 >= retries THEN "raised" ELSE "sleeping"

\* "if attempt == retries: ... raise", otherwise back off and go round again
AfterFailure(attempt, retries) ==
    IF attempt = retries THEN "raised" ELSE "sleeping"

ReRaisedFirst(attempt) == 1

\* A bare "raise" inside the handler re-raises the exception being handled,
\* that is the exception of the current attempt.
ReRaised(attempt) == attempt

RetryIdle ==
    /\ r_pc = "idle"
    /\ r_retries = 0
    /\ r_backoff = 0
    /\ r_jitter = FALSE
    /\ r_attempt = 0
    /\ r_outcomes = <<>>
    /\ r_sleeps = <<>>
    /\ r_last = 0
    /\ r_result = 0
    /\ r_raised = 0

\* wrapper(*args) entered: last_exception = None, attempt = 1.  The
\* repository decorates with retries = 3 (default) and retries = 2.
RetryInit ==
    /\ r_pc = "attempt"
    /\ r_retries \in 1..MaxRetries
    /\ r_backoff \in {2, 3}
    /\ r_jitter \in BOOLEAN
    /\ r_attempt = 1
    /\ r_outcomes = <<>>
    /\ r_sleeps = <<>>
    /\ r_last = 0
    /\ r_result = 0
    /\ r_raised = 0

retryOthers == <<llmVars, sessVars, appVars, scanVars, sugVars, webVars,
                  detVars, wizVars, macVars, fwVars, bkVars>>

\* "return await func(*args, **kwargs)" returns
RetryAttemptOk ==
    /\ r_pc = "attempt"
    /\ r_outcomes' = Append(r_outcomes, "ok")
    /\ r_result' = r_attempt
    /\ r_pc' = "returned"
    /\ UNCHANGED <<r_retries, r_backoff, r_jitter, r_attempt, r_sleeps,
                   r_last, r_raised>>
    /\ UNCHANGED retryOthers

\* func raises an exception of `exceptions`
RetryAttemptFail ==
    /\ r_pc = "attempt"
    /\ r_outcomes' = Append(r_outcomes, "retried")
    /\ r_last' = r_attempt
    /\ r_pc' = AfterFailure(r_attempt, r_retries)
    /\ r_raised' = IF r_pc' = "raised" THEN ReRaised(r_attempt) ELSE r_raised
    /\ UNCHANGED <<r_retries, r_backoff, r_jitter, r_attempt, r_sleeps,
                   r_result>>
    /\ UNCHANGED retryOthers

\* func raises an exception outside `exceptions`: no handler, it propagates
RetryAttemptFatal ==
    /\ r_pc = "attempt"
    /\ r_outcomes' = Append(r_outcomes, "fatal")
    /\ r_raised' = r_attempt
    /\ r_pc' = "raised"
    /\ UNCHANGED <<r_retries, r_backoff, r_jitter, r_attempt, r_sleeps,
                   r_last, r_result>>
    /\ UNCHANGED retryOthers

\* "await asyncio.sleep(sleep_time)" and the next round of the for loop
RetrySleep ==
    /\ r_pc = "sleeping"
    /\ r_sleeps' = Append(r_sleeps, SleepTime(r_backoff, r_attempt, r_jitter))
    /\ r_attempt' = r_attempt + 1
    /\ r_pc' = "attempt"
    /\ UNCHANGED <<r_retries, r_backoff, r_jitter, r_outcomes, r_last,
                   r_result, r_raised>>
    /\ UNCHANGED retryOthers

NextRetry ==
    \/ RetryAttemptOk
    \/ RetryAttemptFail
    \/ RetryAttemptFatal
    \/ RetrySleep


(***************************************************************************)
(* get_llm_response (src/llm_manager.py)                                   *)
(***************************************************************************)
ProviderNames == {"gemini", "ollama"}

\* Values of the provider argument: the two names and any other string
ProviderArgs == {"gemini", "ollama", "other"}

\* What awaiting PROVIDERS[prov](prompt) can do: return a non-empty reply,
\* return None or an empty string, or raise.
BackendOutcomes == {"reply", "empty", "raise"}

NoResult == [kind |-> "none"]
NoProviderMsg == [kind |-> "No LLM provider available (check keys / local service)."]
AllFailedMsg == [kind |-> "All LLM providers failed."]
ReplyOf(p) == [kind |-> "reply", from |-> p]

Ev(p, phase) == [prov |-> p, phase |-> phase]

\* step 1: "if Config.LOCAL_ONLY: [ollama, gemini] else: [gemini, ollama]"
BaseOrder(local_only) ==
    IF local_only THEN <<"ollama", "gemini">> ELSE <<"gemini", "ollama">>

RECURSIVE Remove(_, _)
\* list.remove(x) on a list that holds x at most once
Remove(s, x) ==
    IF s = <<>> THEN <<>>
    ELSE IF Head(s) = x THEN Tail(s)
    ELSE <<Head(s)>> \o Remove(Tail(s), x)

\* step 2: a name is removed only when it is the provider argument and its
\* credential is missing
SkipMissing(order, provider, gemini_key, ollama_url) ==
    LET afterGemini == IF provider = "gemini" /\ ~gemini_key
                       THEN Remove(order, "gemini") ELSE order
    IN  IF provider = "ollama" /\ ~ollama_url
        THEN Remove(afterGemini, "ollama") ELSE afterGemini

\* get_gemini_response returns None at once without a key.  Without an
\* endpoint every Ollama request fails inside the per-model try, so
\* get_ollama_response cannot produce a reply.  Otherwise the backend decides.
BackendResult(p, oracle, gemini_key, ollama_url) ==
    IF p = "gemini" /\ ~gemini_key THEN "empty"
    ELSE IF p = "ollama" /\ ~ollama_url /\ oracle[p] = "reply" THEN "empty"
    ELSE oracle[p]

ReplyAcceptedAny(outcome) == outcome \in {"reply", "empty"}

\* "if reply: return reply"
ReplyAccepted(outcome) == outcome = "reply"

EventsOnStart(cb, p) == IF cb THEN <<Ev(p, "start")>> ELSE <<>>

EventsOnReturn(cb, p) == IF cb THEN <<Ev(p, "end")>> ELSE <<>>

EventsOnRaiseSilent(cb, p) == <<>>

\* the except branch: status_callback("llm_<prov>_error")
EventsOnRaise(cb, p) == IF cb THEN <<Ev(p, "error")>> ELSE <<>>

LLMIdle ==
    /\ l_pc = "idle"
    /\ l_local_only = FALSE
    /\ l_gemini_key = FALSE
    /\ l_ollama_url = FALSE
    /\ l_provider = "gemini"
    /\ l_callback = FALSE
    /\ l_oracle = [p \in ProviderNames |-> "empty"]
    /\ l_providers = <<>>
    /\ l_idx = 0
    /\ l_started = <<>>
    /\ l_events = <<>>
    /\ l_result = NoResult

\* get_llm_response(prompt, provider, status_callback) entered
LLMInit ==
    /\ l_pc = "start"
    /\ l_local_only \in BOOLEAN
    /\ l_gemini_key \in BOOLEAN
    /\ l_ollama_url \in BOOLEAN
    /\ l_provider \in ProviderArgs
    /\ l_callback \in BOOLEAN
    /\ l_oracle \in [ProviderNames -> BackendOutcomes]
    /\ l_providers = <<>>
    /\ l_idx = 0
    /\ l_started = <<>>
    /\ l_events = <<>>
    /\ l_result = NoResult

llmOthers == <<retryVars, sessVars, appVars, scanVars, sugVars, webVars,
                detVars, wizVars, macVars, fwVars, bkVars>>

llmConfig == <<l_local_only, l_gemini_key, l_ollama_url, l_provider,
               l_callback, l_oracle>>

\* steps 1 and 2, and the "if not providers" return
LLMChooseOrder ==
    /\ l_pc = "start"
    /\ l_providers' = SkipMissing(BaseOrder(l_local_only), l_provider,
                                  l_gemini_key, l_ollama_url)
    /\ IF l_providers' = <<>>
       THEN /\ l_result' = NoProviderMsg
            /\ l_pc' = "done"
            /\ l_idx' = l_idx
       ELSE /\ l_result' = l_result
            /\ l_pc' = "loop"
            /\ l_idx' = 1
    /\ UNCHANGED <<l_started, l_events>>
    /\ UNCHANGED llmConfig
    /\ UNCHANGED llmOthers

\* one round of "for prov in providers" up to the await:
\* status_callback("llm_<prov>_start"), then func = PROVIDERS[prov] is awaited
LLMBeginAttempt ==
    /\ l_pc = "loop"
    /\ l_idx <= Len(l_providers)
    /\ l_events' = l_events \o EventsOnStart(l_callback, l_providers[l_idx])
    /\ l_started' = Append(l_started, l_providers[l_idx])
    /\ l_pc' = "awaiting"
    /\ UNCHANGED <<l_providers, l_idx, l_result>>
    /\ UNCHANGED llmConfig
    /\ UNCHANGED llmOthers

\* the awaited function returns: "llm_<prov>_end", then "if reply: return"
LLMAttemptReturns ==
    /\ l_pc = "awaiting"
    /\ LET p == l_providers[l_idx]
           out == BackendResult(p, l_oracle, l_gemini_key, l_ollama_url)
       IN  /\ out \in {"reply", "empty"}
           /\ l_events' = l_events \o EventsOnReturn(l_callback, p)
           /\ IF ReplyAccepted(out)
              THEN /\ l_result' = IF out = "reply" THEN ReplyOf(p)
                                  ELSE [kind |-> "empty"]
                   /\ l_pc' = "done"
                   /\ l_idx' = l_idx
              ELSE /\ l_result' = l_result
                   /\ l_pc' = "loop"
                   /\ l_idx' = l_idx + 1
    /\ UNCHANGED <<l_providers, l_started>>
    /\ UNCHANGED llmConfig
    /\ UNCHANGED llmOthers

\* the awaited function raises: logged, "llm_<prov>_error", continue
LLMAttemptRaises ==
    /\ l_pc = "awaiting"
    /\ LET p == l_providers[l_idx]
       IN  /\ BackendResult(p, l_oracle, l_gemini_key, l_ollama_url) = "raise"
           /\ l_events' = l_events \o EventsOnRaise(l_callback, p)
    /\ l_pc' = "loop"
    /\ l_idx' = l_idx + 1
    /\ UNCHANGED <<l_providers, l_started, l_result>>
    /\ UNCHANGED llmConfig
    /\ UNCHANGED llmOthers

\* step 4: the loop ran out, return "All LLM providers failed."
LLMAllFailed ==
    /\ l_pc = "loop"
    /\ l_idx > Len(l_providers)
    /\ l_result' = AllFailedMsg
    /\ l_pc' = "done"
    /\ UNCHANGED <<l_providers, l_idx, l_started, l_events>>
    /\ UNCHANGED llmConfig
    /\ UNCHANGED llmOthers

NextLLM ==
    \/ LLMChooseOrder
    \/ LLMBeginAttempt
    \/ LLMAttemptReturns
    \/ LLMAttemptRaises
    \/ LLMAllFailed

(***************************************************************************)
(* Session lifecycle (src/llm_manager.py)                                  *)
(***************************************************************************)
Backends == {"gemini", "ollama"}
Callers == 1..NumCallers
NoHolder == 0
Closer == NumCallers + 1
NotReturned == -1

LockAvailableAlways(lock) == TRUE

\* "with _session_lock:" blocks until the threading.Lock is free
LockAvailable(lock) == lock = NoHolder

SessIdle ==
    /\ s_session = [b \in Backends |-> 0]
    /\ s_init = [b \in Backends |-> FALSE]
    /\ s_lock = NoHolder
    /\ s_made = [b \in Backends |-> {}]
    /\ s_closed = {}
    /\ s_nextId = 1
    /\ s_pc = [p \in Callers |-> "off"]
    /\ s_backend = [p \in Callers |-> "gemini"]
    /\ s_ret = [p \in Callers |-> NotReturned]
    /\ s_epoch = [p \in Callers |-> 0]
    /\ c_pc = "off"
    /\ c_closes = 0

\* module import: both sessions None, both flags False, the lock free
SessInit ==
    /\ s_session = [b \in Backends |-> 0]
    /\ s_init = [b \in Backends |-> FALSE]
    /\ s_lock = NoHolder
    /\ s_made = [b \in Backends |-> {}]
    /\ s_closed = {}
    /\ s_nextId = 1
    /\ s_pc = [p \in Callers |-> "idle"]
    /\ s_backend = [p \in Callers |-> "gemini"]
    /\ s_ret = [p \in Callers |-> NotReturned]
    /\ s_epoch = [p \in Callers |-> 0]
    /\ c_pc = "idle"
    /\ c_closes = 0

sessOthers == <<retryVars, llmVars, appVars, scanVars, sugVars, webVars,
                 detVars, wizVars, macVars, fwVars, bkVars>>

\* how many close_sessions() calls have run to completion
ClosesCompleted == IF c_pc = "idle" THEN c_closes ELSE c_closes - 1

\* a caller enters _get_or_create_<b>_session()
SessCall(p, b) ==
    /\ s_pc[p] = "idle"
    /\ s_pc' = [s_pc EXCEPT ![p] = "acquire"]
    /\ s_backend' = [s_backend EXCEPT ![p] = b]
    /\ UNCHANGED <<s_session, s_init, s_lock, s_made, s_closed, s_nextId,
                   s_ret, c_pc, c_closes>>
    /\ s_epoch' = [s_epoch EXCEPT ![p] = ClosesCompleted]
    /\ UNCHANGED sessOthers

\* "with _session_lock:" entered
SessAcquire(p) ==
    /\ s_pc[p] = "acquire"
    /\ LockAvailable(s_lock)
    /\ s_lock' = p
    /\ s_pc' = [s_pc EXCEPT ![p] = "check"]
    /\ UNCHANGED <<s_session, s_init, s_made, s_closed, s_nextId, s_backend,
                   s_ret, c_pc, c_closes>>
    /\ UNCHANGED s_epoch
    /\ UNCHANGED sessOthers

\* "if not _<b>_init:"
SessCheck(p) ==
    /\ s_pc[p] = "check"
    /\ s_pc' = [s_pc EXCEPT ![p] =
                   IF s_init[s_backend[p]] THEN "release" ELSE "create"]
    /\ UNCHANGED <<s_session, s_init, s_lock, s_made, s_closed, s_nextId,
                   s_backend, s_ret, c_pc, c_closes>>
    /\ UNCHANGED s_epoch
    /\ UNCHANGED sessOthers

\* "_<b>_session = aiohttp.ClientSession()"
SessCreate(p) ==
    /\ s_pc[p] = "create"
    /\ s_session' = [s_session EXCEPT ![s_backend[p]] = s_nextId]
    /\ s_made' = [s_made EXCEPT ![s_backend[p]] = @ \cup {s_nextId}]
    /\ s_nextId' = s_nextId + 1
    /\ s_pc' = [s_pc EXCEPT ![p] = "setflag"]
    /\ UNCHANGED <<s_init, s_lock, s_closed, s_backend, s_ret, c_pc,
                   c_closes>>
    /\ UNCHANGED s_epoch
    /\ UNCHANGED sessOthers

\* "_<b>_init = True"
SessSetFlag(p) ==
    /\ s_pc[p] = "setflag"
    /\ s_init' = [s_init EXCEPT ![s_backend[p]] = TRUE]
    /\ s_pc' = [s_pc EXCEPT ![p] = "release"]
    /\ UNCHANGED <<s_session, s_lock, s_made, s_closed, s_nextId, s_backend,
                   s_ret, c_pc, c_closes>>
    /\ UNCHANGED s_epoch
    /\ UNCHANGED sessOthers

\* the with block is left
SessRelease(p) ==
    /\ s_pc[p] = "release"
    /\ s_lock' = NoHolder
    /\ s_pc' = [s_pc EXCEPT ![p] = "return"]
    /\ UNCHANGED <<s_session, s_init, s_made, s_closed, s_nextId, s_backend,
                   s_ret, c_pc, c_closes>>
    /\ UNCHANGED s_epoch
    /\ UNCHANGED sessOthers

\* "return _<b>_session": the global is read after the lock was released
SessReturn(p) ==
    /\ s_pc[p] = "return"
    /\ s_ret' = [s_ret EXCEPT ![p] = s_session[s_backend[p]]]
    /\ s_pc' = [s_pc EXCEPT ![p] = "done"]
    /\ UNCHANGED <<s_session, s_init, s_lock, s_made, s_closed, s_nextId,
                   s_backend, c_pc, c_closes>>
    /\ UNCHANGED s_epoch
    /\ UNCHANGED sessOthers

\* close_sessions() is called and takes the lock
CloseAcquire ==
    /\ c_pc = "idle"
    /\ c_closes < MaxCloses
    /\ LockAvailable(s_lock)
    /\ s_lock' = Closer
    /\ c_closes' = c_closes + 1
    /\ c_pc' = IF s_session["ollama"] # 0 THEN "await_ollama"
               ELSE IF s_session["gemini"] # 0 THEN "await_gemini"
               ELSE "release"
    /\ UNCHANGED <<s_session, s_init, s_made, s_closed, s_nextId, s_pc,
                   s_backend, s_ret>>
    /\ UNCHANGED s_epoch
    /\ UNCHANGED sessOthers

\* "await _ollama_session.close()" completes; "_ollama_session = None";
\* then "if _gemini_session:"
CloseOllamaDone ==
    /\ c_pc = "await_ollama"
    /\ s_closed' = s_closed \cup {s_session["ollama"]}
    /\ s_session' = [s_session EXCEPT !["ollama"] = 0]
    /\ c_pc' = IF s_session["gemini"] # 0 THEN "await_gemini" ELSE "release"
    /\ UNCHANGED <<s_init, s_lock, s_made, s_nextId, s_pc, s_backend, s_ret,
                   c_closes>>
    /\ UNCHANGED s_epoch
    /\ UNCHANGED sessOthers

\* "await _gemini_session.close()" completes; "_gemini_session = None"
CloseGeminiDone ==
    /\ c_pc = "await_gemini"
    /\ s_closed' = s_closed \cup {s_session["gemini"]}
    /\ s_session' = [s_session EXCEPT !["gemini"] = 0]
    /\ c_pc' = "release"
    /\ UNCHANGED <<s_init, s_lock, s_made, s_nextId, s_pc, s_backend, s_ret,
                   c_closes>>
    /\ UNCHANGED s_epoch
    /\ UNCHANGED sessOthers

\* the with block of close_sessions() is left
CloseRelease ==
    /\ c_pc = "release"
    /\ s_lock' = NoHolder
    /\ c_pc' = "idle"
    /\ UNCHANGED <<s_session, s_init, s_made, s_closed, s_nextId, s_pc,
                   s_backend, s_ret, c_closes>>
    /\ UNCHANGED s_epoch
    /\ UNCHANGED sessOthers

NextSession ==
    \/ \E p \in Callers, b \in Backends : SessCall(p, b)
    \/ \E p \in Callers : SessAcquire(p)
    \/ \E p \in Callers : SessCheck(p)
    \/ \E p \in Callers : SessCreate(p)
    \/ \E p \in Callers : SessSetFlag(p)
    \/ \E p \in Callers : SessRelease(p)
    \/ \E p \in Callers : SessReturn(p)
    \/ CloseAcquire
    \/ CloseOllamaDone
    \/ CloseGeminiDone
    \/ CloseRelease

\* ------------------------------------------------------------------
\*  the same functions as coroutines of one event loop
\* ------------------------------------------------------------------
\* the loop's thread is inside threading.Lock.acquire(): no coroutine of the
\* loop runs until the lock is released
LoopBlocked == \E p \in Callers : s_pc[p] = "blocked"

\* close_sessions() is suspended at one of its awaits, inside the with block
CloserSuspended == c_pc \in {"await_ollama", "await_gemini"}

\* a coroutine calls _get_or_create_<b>_session(); the getter has no await
\* and runs from "with _session_lock:" to its return in one piece, or stops
\* the thread in the acquire when the lock is held
LoopGet(p, b) ==
    /\ ~LoopBlocked
    /\ s_pc[p] \in {"idle", "done"}
    /\ c_pc \in {"idle"} \cup {"await_ollama", "await_gemini"}
    /\ s_backend' = [s_backend EXCEPT ![p] = b]
    /\ s_epoch' = [s_epoch EXCEPT ![p] = ClosesCompleted]
    /\ IF ~LockAvailable(s_lock)
       THEN /\ s_pc' = [s_pc EXCEPT ![p] = "blocked"]
            /\ s_ret' = [s_ret EXCEPT ![p] = NotReturned]
            /\ UNCHANGED <<s_session, s_init, s_made, s_nextId>>
       ELSE /\ IF s_init[b]
               THEN UNCHANGED <<s_session, s_made, s_nextId>>
               ELSE /\ s_session' = [s_session EXCEPT ![b] = s_nextId]
                    /\ s_made' = [s_made EXCEPT ![b] = @ \cup {s_nextId}]
                    /\ s_nextId' = s_nextId + 1
            /\ s_init' = [s_init EXCEPT ![b] = TRUE]
            /\ s_pc' = [s_pc EXCEPT ![p] = "done"]
            /\ s_ret' = [s_ret EXCEPT ![p] = s_session'[b]]
    /\ UNCHANGED <<s_lock, s_closed, c_pc, c_closes>>
    /\ UNCHANGED sessOthers

\* close_sessions() runs on the loop whenever the loop's thread runs at all
NextSessionLoop ==
    \/ \E p \in Callers, b \in Backends : LoopGet(p, b)
    \/ ~LoopBlocked /\ CloseAcquire
    \/ ~LoopBlocked /\ CloseOllamaDone
    \/ ~LoopBlocked /\ CloseGeminiDone
    \/ ~LoopBlocked /\ CloseRelease

(***************************************************************************)
(* AssistantApp (src/main_standalone.py and src/main.py)                   *)
(***************************************************************************)
Variants == {"standalone", "compat"}

NoItem == [type |-> "none", seq |-> 0]
Item(t, n) == [type |-> t, seq |-> n]

QueuePickLast(q) == Len(q)

\* queue.Queue.get() returns the oldest item
QueuePick(q) == 1

QueueWithout(q, i) ==
    SubSeq(q, 1, i - 1) \o SubSeq(q, i + 1, Len(q))

DestroyRaisesWhenDestroyed(w) == w = "destroyed"

\* FloatingWidget.destroy() wraps root.quit() and root.destroy() in
\* try/except: nothing leaves it, whatever the window's state
DestroyRaises(w) == FALSE

\* "if self.widget: self.widget.set_state(state)": the reference is tested,
\* not whether the window still exists
WidgetStateAfter(widget, old, state) ==
    IF widget # "none" THEN state ELSE old

\* "if self.system_tray: self.system_tray.update_icon(state)"
TrayIconAfter(tray, old, state) ==
    IF tray # "none" THEN state ELSE old

AppIdle ==
    /\ a_variant = "standalone"
    /\ a_running = FALSE
    /\ a_shutdown_event = FALSE
    /\ a_queue = <<>>
    /\ a_nextSeq = 1
    /\ a_widget = "none"
    /\ a_full_gui = "none"
    /\ a_tray = "none"
    /\ a_thread = "off"
    /\ a_current = NoItem
    /\ a_orphans = 0
    /\ a_detector = "none"
    /\ a_processor = "none"
    /\ a_tts = "none"
    /\ a_widgetState = "idle"
    /\ a_trayIcon = "idle"
    /\ a_handled = <<>>
    /\ a_raised = FALSE
    /\ a_shutdownCalls = 0
    /\ a_shutdownError = FALSE
    /\ a_preload = "none"

\* AssistantApp.__init__ of either file
AppInit ==
    /\ a_variant \in Variants
    /\ a_running = FALSE
    /\ a_shutdown_event = FALSE
    /\ a_queue = <<>>
    /\ a_nextSeq = 1
    /\ a_widget = "none"
    /\ a_full_gui = "none"
    /\ a_tray = "none"
    /\ a_thread = "none"
    /\ a_current = NoItem
    /\ a_orphans = 0
    /\ a_detector = "none"
    /\ a_processor = "none"
    /\ a_tts = "none"
    /\ a_widgetState = "idle"
    /\ a_trayIcon = "idle"
    /\ a_handled = <<>>
    /\ a_raised = FALSE
    /\ a_shutdownCalls = 0
    /\ a_shutdownError = FALSE
    /\ a_preload = "none"

appOthers == <<retryVars, llmVars, sessVars, scanVars, sugVars, webVars,
                detVars, wizVars, macVars, fwVars, bkVars>>

\* the fields no thread step of the main loop touches
appShutdownState == <<a_shutdown_event, a_shutdownCalls, a_shutdownError>>

\* input_queue.put(item)
Put(t) ==
    /\ a_queue' = Append(a_queue, Item(t, a_nextSeq))
    /\ a_nextSeq' = a_nextSeq + 1

\* Components built when initialisation raised after `stage` of them:
\* tts engine, command processor, wake-word detector, in that order
BuiltUpTo(stage, k) == IF stage >= k THEN "on" ELSE "none"

\* ------------------------------------------------------------------
\*  show_widget / start of the assistant thread
\* ------------------------------------------------------------------
\* show_widget(): called by start(), and in main_standalone.py again by
\* show_widget_from_tray when self.widget is None.  A second assistant
\* thread is started only when none is alive.
ShowWidget ==
    /\ \/ a_thread = "none" /\ a_widget = "none"
       \/ a_variant = "standalone" /\ a_tray = "started" /\ a_widget = "none"
    /\ a_running \/ a_thread \in {"none", "done"}
    /\ a_widget' = "live"
    /\ a_tray' = IF a_tray = "none" THEN "started" ELSE a_tray
    /\ IF ~a_running
       THEN /\ a_running' = TRUE
            /\ a_thread' = "init"
            /\ a_raised' = FALSE
       ELSE UNCHANGED <<a_running, a_thread, a_raised>>
    /\ UNCHANGED <<a_variant, a_queue, a_nextSeq, a_full_gui, a_current,
                   a_orphans, a_detector, a_processor, a_tts, a_widgetState,
                   a_trayIcon, a_handled>>
    /\ UNCHANGED appShutdownState
    /\ UNCHANGED a_preload
    /\ UNCHANGED appOthers

\* ------------------------------------------------------------------
\*  main_standalone.py: assistant_logic
\* ------------------------------------------------------------------
\* the except/finally of assistant_logic: log, tray notification,
\* self.running = False.  The cleanup block is not run.
ThreadCrash ==
    /\ a_raised' = TRUE
    /\ a_running' = FALSE
    /\ a_thread' = "done"
    /\ a_current' = NoItem

\* component initialisation completes: TTS, processor, detector built, the
\* preload_models task created, "Jarvis Ready" notified; the main loop is
\* entered
SInitOk ==
    /\ a_variant = "standalone"
    /\ a_thread = "init"
    /\ a_tts' = "on"
    /\ a_processor' = "on"
    /\ a_detector' = "on"
    /\ a_preload' = "created"
    /\ a_thread' = "poll"
    /\ UNCHANGED <<a_variant, a_running, a_queue, a_nextSeq, a_widget,
                   a_full_gui, a_tray, a_current, a_orphans, a_widgetState,
                   a_trayIcon, a_handled, a_raised>>
    /\ UNCHANGED appShutdownState
    /\ UNCHANGED appOthers

\* component initialisation raises after `stage` components were built
SInitFail(stage) ==
    /\ a_variant = "standalone"
    /\ a_thread = "init"
    /\ a_tts' = BuiltUpTo(stage, 1)
    /\ a_processor' = BuiltUpTo(stage, 2)
    /\ a_detector' = BuiltUpTo(stage, 3)
    /\ ThreadCrash
    /\ UNCHANGED <<a_variant, a_queue, a_nextSeq, a_widget, a_full_gui,
                   a_tray, a_orphans, a_widgetState, a_trayIcon, a_handled>>
    /\ UNCHANGED appShutdownState
    /\ UNCHANGED a_preload
    /\ UNCHANGED appOthers

\* "while self.running:" and the submission of input_queue.get to the
\* executor under wait_for(timeout=1.0)
SPoll ==
    /\ a_variant = "standalone"
    /\ a_thread = "poll"
    /\ a_thread' = IF a_running THEN "waiting" ELSE "cleanup"
    /\ UNCHANGED <<a_variant, a_running, a_queue, a_nextSeq, a_widget,
                   a_full_gui, a_tray, a_current, a_orphans, a_detector,
                   a_processor, a_tts, a_widgetState, a_trayIcon, a_handled,
                   a_raised>>
    /\ UNCHANGED appShutdownState
    /\ UNCHANGED a_preload
    /\ UNCHANGED appOthers

\* asyncio.TimeoutError: continue.  The executor thread cannot be cancelled
\* and stays blocked in input_queue.get.
STimeout ==
    /\ a_variant = "standalone"
    /\ a_thread = "waiting"
    /\ a_orphans < MaxOrphans
    /\ a_orphans' = a_orphans + 1
    /\ a_thread' = "poll"
    /\ UNCHANGED <<a_variant, a_running, a_queue, a_nextSeq, a_widget,
                   a_full_gui, a_tray, a_current, a_detector, a_processor,
                   a_tts, a_widgetState, a_trayIcon, a_handled, a_raised>>
    /\ UNCHANGED appShutdownState
    /\ UNCHANGED a_preload
    /\ UNCHANGED appOthers

\* a get() left behind by a timed-out poll returns: its item goes to a
\* cancelled future and is dropped
SOrphanGet ==
    /\ a_variant = "standalone"
    /\ a_orphans > 0
    /\ a_queue # <<>>
    /\ a_queue' = QueueWithout(a_queue, QueuePick(a_queue))
    /\ a_orphans' = a_orphans - 1
    /\ UNCHANGED <<a_variant, a_running, a_nextSeq, a_widget, a_full_gui,
                   a_tray, a_thread, a_current, a_detector, a_processor,
                   a_tts, a_widgetState, a_trayIcon, a_handled, a_raised>>
    /\ UNCHANGED appShutdownState
    /\ UNCHANGED a_preload
    /\ UNCHANGED appOthers

\* the awaited get() returns an item; the loop body runs up to its first
\* await, its continue or its break.  `text` says whether the event yields
\* command text (TEXT_COMMAND data, handle_suggestion_accept result);
\* `fails` says whether the processor's suggestion handler raises.
STake(text, fails) ==
    /\ a_variant = "standalone"
    /\ a_thread = "waiting"
    /\ a_queue # <<>>
    /\ LET it == a_queue[QueuePick(a_queue)]
           thinkW == WidgetStateAfter(a_widget, a_widgetState, "thinking")
           thinkT == TrayIconAfter(a_tray, a_trayIcon, "thinking")
       IN
       /\ a_queue' = QueueWithout(a_queue, QueuePick(a_queue))
       /\ a_handled' = Append(a_handled, it.seq)
       /\ CASE it.type = "BARE" ->
                 \* "event_type, data = ..." cannot unpack the string
                 /\ ThreadCrash
                 /\ UNCHANGED <<a_widgetState, a_trayIcon>>
            [] it.type = "EXIT" ->
                 /\ a_thread' = "cleanup"
                 /\ UNCHANGED <<a_running, a_current, a_widgetState,
                                a_trayIcon, a_raised>>
            [] it.type = "WAKE_WORD_DETECTED" ->
                 /\ a_widgetState' =
                        WidgetStateAfter(a_widget, thinkW, "listening")
                 /\ a_trayIcon' = TrayIconAfter(a_tray, thinkT, "listening")
                 /\ a_thread' = "stt"
                 /\ a_current' = it
                 /\ UNCHANGED <<a_running, a_raised>>
            [] it.type = "SUGGESTION_DISMISS" ->
                 IF fails
                 THEN /\ ThreadCrash
                      /\ a_widgetState' = thinkW
                      /\ a_trayIcon' = thinkT
                 ELSE /\ a_widgetState' = thinkW
                      /\ a_trayIcon' = thinkT
                      /\ a_thread' = "poll"
                      /\ UNCHANGED <<a_running, a_current, a_raised>>
            [] it.type \in {"TEXT_COMMAND", "SUGGESTION_ACCEPT"} ->
                 IF fails /\ it.type = "SUGGESTION_ACCEPT"
                 THEN /\ ThreadCrash
                      /\ a_widgetState' = thinkW
                      /\ a_trayIcon' = thinkT
                 ELSE IF text
                 THEN /\ a_widgetState' = thinkW
                      /\ a_trayIcon' = thinkT
                      /\ a_thread' = "exec"
                      /\ a_current' = it
                      /\ UNCHANGED <<a_running, a_raised>>
                 ELSE /\ a_widgetState' =
                             WidgetStateAfter(a_widget, thinkW, "idle")
                      /\ a_trayIcon' = TrayIconAfter(a_tray, thinkT, "idle")
                      /\ a_thread' = "poll"
                      /\ UNCHANGED <<a_running, a_current, a_raised>>
    /\ UNCHANGED <<a_variant, a_nextSeq, a_widget, a_full_gui, a_tray,
                   a_orphans, a_detector, a_processor, a_tts>>
    /\ UNCHANGED appShutdownState
    /\ UNCHANGED a_preload
    /\ UNCHANGED appOthers

\* "await asyncio.to_thread(stt.listen_and_transcribe)" ends: with text,
\* without text, or by raising
SSttDone(outcome) ==
    /\ a_variant = "standalone"
    /\ a_thread = "stt"
    /\ CASE outcome = "text" ->
                 /\ a_widgetState' =
                        WidgetStateAfter(a_widget, a_widgetState, "thinking")
                 /\ a_trayIcon' = TrayIconAfter(a_tray, a_trayIcon, "thinking")
                 /\ a_thread' = "exec"
                 /\ UNCHANGED <<a_running, a_current, a_raised>>
         [] outcome = "none" ->
                 /\ a_widgetState' =
                        WidgetStateAfter(a_widget, a_widgetState, "idle")
                 /\ a_trayIcon' = TrayIconAfter(a_tray, a_trayIcon, "idle")
                 /\ a_thread' = "poll"
                 /\ a_current' = NoItem
                 /\ UNCHANGED <<a_running, a_raised>>
         [] outcome = "raise" ->
                 /\ ThreadCrash
                 /\ UNCHANGED <<a_widgetState, a_trayIcon>>
    /\ UNCHANGED <<a_variant, a_queue, a_nextSeq, a_widget, a_full_gui,
                   a_tray, a_orphans, a_detector, a_processor, a_tts,
                   a_handled>>
    /\ UNCHANGED appShutdownState
    /\ UNCHANGED a_preload
    /\ UNCHANGED appOthers

\* "result = await self.processor.execute(command_text)" ends: with the
\* literal "exit", with another reply, or by raising
SExecDone(outcome) ==
    /\ a_variant = "standalone"
    /\ a_thread = "exec"
    /\ CASE outcome = "exit" ->
                 /\ a_running' = FALSE
                 /\ a_thread' = "cleanup"
                 /\ a_current' = NoItem
                 /\ UNCHANGED <<a_widgetState, a_trayIcon, a_raised>>
         [] outcome = "reply" ->
                 /\ a_widgetState' =
                        WidgetStateAfter(a_widget, a_widgetState, "idle")
                 /\ a_trayIcon' = TrayIconAfter(a_tray, a_trayIcon, "idle")
                 /\ a_thread' = "poll"
                 /\ a_current' = NoItem
                 /\ UNCHANGED <<a_running, a_raised>>
         [] outcome = "raise" ->
                 /\ ThreadCrash
                 /\ UNCHANGED <<a_widgetState, a_trayIcon>>
    /\ UNCHANGED <<a_variant, a_queue, a_nextSeq, a_widget, a_full_gui,
                   a_tray, a_orphans, a_detector, a_processor, a_tts,
                   a_handled>>
    /\ UNCHANGED appShutdownState
    /\ UNCHANGED a_preload
    /\ UNCHANGED appOthers

\* the cleanup block after the loop, then finally: detector.stop(), await
\* detector_task, await processor.close(), tts_engine.close(),
\* self.running = False
SCleanup ==
    /\ a_variant = "standalone"
    /\ a_thread = "cleanup"
    /\ a_detector' = "off"
    /\ a_processor' = "off"
    /\ a_tts' = "off"
    /\ a_running' = FALSE
    /\ a_thread' = "done"
    /\ UNCHANGED <<a_variant, a_queue, a_nextSeq, a_widget, a_full_gui,
                   a_tray, a_current, a_orphans, a_widgetState, a_trayIcon,
                   a_handled, a_raised>>
    /\ UNCHANGED appShutdownState
    /\ UNCHANGED a_preload
    /\ UNCHANGED appOthers

\* ------------------------------------------------------------------
\*  main_standalone.py: preload_models
\* ------------------------------------------------------------------
\* positions at which assistant_logic is suspended in an await, so that
\* another task of its event loop can run
AwaitPoints == {"waiting", "stt", "exec"}

\* the task starts: "if self.widget: self.widget.set_state("thinking")",
\* then it awaits the model loads; the tray is not told
SPreloadBegin ==
    /\ a_variant = "standalone"
    /\ a_preload = "created"
    /\ a_thread \in AwaitPoints
    /\ a_preload' = "loading"
    /\ a_widgetState' = WidgetStateAfter(a_widget, a_widgetState, "thinking")
    /\ UNCHANGED <<a_variant, a_running, a_queue, a_nextSeq, a_widget,
                   a_full_gui, a_tray, a_thread, a_current, a_orphans,
                   a_detector, a_processor, a_tts, a_trayIcon, a_handled,
                   a_raised>>
    /\ UNCHANGED appShutdownState
    /\ UNCHANGED appOthers

\* the loads are done: "if self.widget: self.widget.set_state("idle")"
SPreloadEnd ==
    /\ a_variant = "standalone"
    /\ a_preload = "loading"
    /\ a_thread \in AwaitPoints
    /\ a_preload' = "done"
    /\ a_widgetState' = WidgetStateAfter(a_widget, a_widgetState, "idle")
    /\ UNCHANGED <<a_variant, a_running, a_queue, a_nextSeq, a_widget,
                   a_full_gui, a_tray, a_thread, a_current, a_orphans,
                   a_detector, a_processor, a_tts, a_trayIcon, a_handled,
                   a_raised>>
    /\ UNCHANGED appShutdownState
    /\ UNCHANGED appOthers

\* ------------------------------------------------------------------
\*  main_standalone.py: producers and window management
\* ------------------------------------------------------------------
\* the orb is clicked: trigger_voice -> handle_widget_command forwards
\* ("WAKE_WORD_DETECTED", "manual") to the queue
WidgetVoice ==
    /\ a_variant = "standalone"
    /\ a_widget = "live"
    /\ a_nextSeq <= MaxEvents
    /\ Put("WAKE_WORD_DETECTED")
    /\ UNCHANGED <<a_variant, a_running, a_widget, a_full_gui, a_tray,
                   a_thread, a_current, a_orphans, a_detector, a_processor,
                   a_tts, a_widgetState, a_trayIcon, a_handled, a_raised>>
    /\ UNCHANGED appShutdownState
    /\ UNCHANGED a_preload
    /\ UNCHANGED appOthers

\* menu "Open Chat": handle_widget_command("OPEN_CHAT") runs show_full_gui,
\* which destroys the widget, clears self.widget and builds the chat window
WidgetOpenChat ==
    /\ a_variant = "standalone"
    /\ a_widget = "live"
    /\ a_widget' = "none"
    /\ a_full_gui' = "live"
    /\ UNCHANGED <<a_variant, a_running, a_queue, a_nextSeq, a_tray,
                   a_thread, a_current, a_orphans, a_detector, a_processor,
                   a_tts, a_widgetState, a_trayIcon, a_handled, a_raised>>
    /\ UNCHANGED appShutdownState
    /\ UNCHANGED a_preload
    /\ UNCHANGED appOthers

\* tray menu "voice": trigger_voice_command
TrayVoice ==
    /\ a_variant = "standalone"
    /\ a_tray = "started"
    /\ a_nextSeq <= MaxEvents
    /\ Put("WAKE_WORD_DETECTED")
    /\ UNCHANGED <<a_variant, a_running, a_widget, a_full_gui, a_tray,
                   a_thread, a_current, a_orphans, a_detector, a_processor,
                   a_tts, a_widgetState, a_trayIcon, a_handled, a_raised>>
    /\ UNCHANGED appShutdownState
    /\ UNCHANGED a_preload
    /\ UNCHANGED appOthers

\* tray menu "hide": hide_widget destroys the widget and clears self.widget
TrayHide ==
    /\ a_variant = "standalone"
    /\ a_tray = "started"
    /\ a_widget # "none"
    /\ a_widget' = "none"
    /\ UNCHANGED <<a_variant, a_running, a_queue, a_nextSeq, a_full_gui,
                   a_tray, a_thread, a_current, a_orphans, a_detector,
                   a_processor, a_tts, a_widgetState, a_trayIcon, a_handled,
                   a_raised>>
    /\ UNCHANGED appShutdownState
    /\ UNCHANGED a_preload
    /\ UNCHANGED appOthers

\* the chat window, built over the same input_queue, pushes a typed command
\* or a suggestion event
GuiInput(t) ==
    /\ a_variant = "standalone"
    /\ a_full_gui = "live"
    /\ a_nextSeq <= MaxEvents
    /\ Put(t)
    /\ UNCHANGED <<a_variant, a_running, a_widget, a_full_gui, a_tray,
                   a_thread, a_current, a_orphans, a_detector, a_processor,
                   a_tts, a_widgetState, a_trayIcon, a_handled, a_raised>>
    /\ UNCHANGED appShutdownState
    /\ UNCHANGED a_preload
    /\ UNCHANGED appOthers

\* WakeWordDetector._fire_wake_event: self.q.put("WAKE_WORD_DETECTED"),
\* a bare string
DetectorFire ==
    /\ a_variant = "standalone"
    /\ a_detector = "on"
    /\ a_nextSeq <= MaxEvents
    /\ Put("BARE")
    /\ UNCHANGED <<a_variant, a_running, a_widget, a_full_gui, a_tray,
                   a_thread, a_current, a_orphans, a_detector, a_processor,
                   a_tts, a_widgetState, a_trayIcon, a_handled, a_raised>>
    /\ UNCHANGED appShutdownState
    /\ UNCHANGED a_preload
    /\ UNCHANGED appOthers

\* ------------------------------------------------------------------
\*  shutdown()
\* ------------------------------------------------------------------
\* SystemTray.stop() on a started or an already stopped tray
TrayStop(t) == "stopped"

\* main_standalone.py shutdown(), reached from the widget's close callback,
\* the tray's exit entry and KeyboardInterrupt: running = False, EXIT is
\* queued, the tray is stopped, the windows are destroyed, the thread is
\* joined for at most 5 s, sys.exit(0).  Only widget.destroy() is guarded
\* (inside FloatingWidget); an exception there would leave shutdown().
SShutdown ==
    /\ a_variant = "standalone"
    /\ a_thread # "none"
    /\ a_shutdownCalls < MaxShutdowns
    /\ a_shutdownCalls' = a_shutdownCalls + 1
    /\ a_running' = FALSE
    /\ Put("EXIT")
    /\ a_tray' = IF a_tray # "none" THEN TrayStop(a_tray) ELSE a_tray
    /\ IF a_widget # "none" /\ DestroyRaises(a_widget)
       THEN /\ a_shutdownError' = TRUE
            /\ UNCHANGED <<a_widget, a_full_gui>>
       ELSE /\ a_shutdownError' = a_shutdownError
            /\ a_widget' = IF a_widget # "none" THEN "destroyed" ELSE a_widget
            /\ a_full_gui' = IF a_full_gui # "none" THEN "quit"
                             ELSE a_full_gui
    /\ UNCHANGED <<a_variant, a_shutdown_event, a_thread, a_current,
                   a_orphans, a_detector, a_processor, a_tts, a_widgetState,
                   a_trayIcon, a_handled, a_raised>>
    /\ UNCHANGED a_preload
    /\ UNCHANGED appOthers

\* main.py shutdown(), reached from the signal handler (installed in
\* __init__) and from main()'s finally.  Every step sits in a try/except.
\* Of the components only those with cleanup() or close() are touched:
\* WakeWordDetector has neither, the processor's close() is a coroutine
\* function that is called without await, the TTS engine is closed.
CShutdown ==
    /\ a_variant = "compat"
    /\ a_shutdownCalls < MaxShutdowns
    /\ a_shutdownCalls' = a_shutdownCalls + 1
    /\ a_shutdown_event' = TRUE
    /\ a_running' = FALSE
    /\ a_tts' = IF a_tts = "on" THEN "off" ELSE a_tts
    /\ a_widget' = IF a_widget # "none" THEN "destroyed" ELSE a_widget
    /\ a_tray' = IF a_tray # "none" THEN TrayStop(a_tray) ELSE a_tray
    /\ UNCHANGED <<a_variant, a_queue, a_nextSeq, a_full_gui, a_thread,
                   a_current, a_orphans, a_detector, a_processor,
                   a_widgetState, a_trayIcon, a_handled, a_raised,
                   a_shutdownError>>
    /\ UNCHANGED a_preload
    /\ UNCHANGED appOthers

\* ------------------------------------------------------------------
\*  main.py: run_assistant_thread
\* ------------------------------------------------------------------
RECURSIVE DrainOrder(_)
\* _process_pending_commands: get_nowait() until the queue is empty
DrainOrder(q) ==
    IF q = <<>> THEN <<>>
    ELSE <<q[QueuePick(q)].seq>>
         \o DrainOrder(QueueWithout(q, QueuePick(q)))

\* _initialize_components completes
CInitOk ==
    /\ a_variant = "compat"
    /\ a_thread = "init"
    /\ a_tts' = "on"
    /\ a_processor' = "on"
    /\ a_detector' = "on"
    /\ a_thread' = "loop"
    /\ UNCHANGED <<a_variant, a_running, a_queue, a_nextSeq, a_widget,
                   a_full_gui, a_tray, a_current, a_orphans, a_widgetState,
                   a_trayIcon, a_handled, a_raised>>
    /\ UNCHANGED appShutdownState
    /\ UNCHANGED a_preload
    /\ UNCHANGED appOthers

\* _initialize_components raises after `stage` components were built: it is
\* logged and re-raised, run_assistant_thread logs it and ends.  Nothing is
\* closed and self.running is left as it is.
CInitFail(stage) ==
    /\ a_variant = "compat"
    /\ a_thread = "init"
    /\ a_tts' = BuiltUpTo(stage, 1)
    /\ a_processor' = BuiltUpTo(stage, 2)
    /\ a_detector' = BuiltUpTo(stage, 3)
    /\ a_raised' = TRUE
    /\ a_thread' = "done"
    /\ UNCHANGED <<a_variant, a_running, a_queue, a_nextSeq, a_widget,
                   a_full_gui, a_tray, a_current, a_orphans, a_widgetState,
                   a_trayIcon, a_handled>>
    /\ UNCHANGED appShutdownState
    /\ UNCHANGED a_preload
    /\ UNCHANGED appOthers

\* one round of "while self.running and not self.shutdown_event.is_set()":
\* _process_pending_commands drains the queue, every command handled inside
\* handle_widget_command's own try/except, then a 0.1 s wait
CLoop ==
    /\ a_variant = "compat"
    /\ a_thread = "loop"
    /\ IF a_running /\ ~a_shutdown_event
       THEN /\ a_handled' = a_handled \o DrainOrder(a_queue)
            /\ a_queue' = <<>>
            /\ a_thread' = "loop"
       ELSE /\ a_thread' = "done"
            /\ UNCHANGED <<a_handled, a_queue>>
    /\ UNCHANGED <<a_variant, a_running, a_nextSeq, a_widget, a_full_gui,
                   a_tray, a_current, a_orphans, a_detector, a_processor,
                   a_tts, a_widgetState, a_trayIcon, a_raised>>
    /\ UNCHANGED appShutdownState
    /\ UNCHANGED a_preload
    /\ UNCHANGED appOthers

NextApp ==
    \/ ShowWidget
    \/ SInitOk
    \/ \E stage \in 0..3 : SInitFail(stage)
    \/ SPoll
    \/ STimeout
    \/ SOrphanGet
    \/ \E text \in BOOLEAN, fails \in BOOLEAN : STake(text, fails)
    \/ \E outcome \in {"text", "none", "raise"} : SSttDone(outcome)
    \/ \E outcome \in {"exit", "reply", "raise"} : SExecDone(outcome)
    \/ SCleanup
    \/ SPreloadBegin
    \/ SPreloadEnd
    \/ WidgetVoice
    \/ WidgetOpenChat
    \/ TrayVoice
    \/ TrayHide
    \/ \E t \in {"TEXT_COMMAND", "SUGGESTION_ACCEPT", "SUGGESTION_DISMISS"} :
          GuiInput(t)
    \/ DetectorFire
    \/ SShutdown
    \/ CShutdown
    \/ CInitOk
    \/ \E stage \in 0..3 : CInitFail(stage)
    \/ CLoop

(***************************************************************************)
(* AppManager (src/app_scanner.py)                                         *)
(***************************************************************************)
AppNames == {"chrome", "notepad"}
NoPath == 0
AppPaths == 1..NumPaths
Mappings == [AppNames -> {NoPath} \cup AppPaths]
EmptyDict == [n \in AppNames |-> NoPath]
UninstallKeys == {"native", "wow6432"}
ScanSources == <<"registry", "start_menu", "store", "memory">>

\* "self.cache_duration = timedelta(hours=24)"
CacheDuration == 24

\* "newest = datetime.min"
DatetimeMin == -1

ClockTimes == {t \in 0..MaxClock : t % TickHours = 0}

NoCacheFile == [exists |-> FALSE, mtime |-> 0, content |-> EmptyDict]
CacheFiles ==
    {NoCacheFile} \cup
    [exists : {TRUE}, mtime : ClockTimes, content : Mappings]

\* len(apps)
Count(apps) == Cardinality({n \in AppNames : apps[n] # NoPath})

\* dict.update(other): the keys of other override
DictUpdate(apps, other) ==
    [n \in AppNames |-> IF other[n] # NoPath THEN other[n] ELSE apps[n]]

MaxOf(S) == CHOOSE x \in S : \A y \in S : y <= x

\* newest mtime among the Uninstall keys; a key that cannot be read is
\* skipped by "except Exception: pass"
SystemAppModifiedTime(regtime, regok) ==
    MaxOf({DatetimeMin} \cup {regtime[k] : k \in {j \in UninstallKeys : regok[j]}})

UsesCacheNever(cache, now, newest) == FALSE

\* the three nested ifs of _load_apps_with_cache
UsesCache(cache, now, newest) ==
    /\ cache.exists
    /\ now - cache.mtime < CacheDuration
    /\ cache.mtime > newest

\* a function whose body is "..." returns None
NoneReturn == [isNone |-> TRUE, apps |-> EmptyDict]

ScanRegistryApps == NoneReturn

ScanStartMenu == NoneReturn

ScanStoreApps == NoneReturn

\* memory_manager.get_all_apps(): the remembered applications
GetAllApps(mem) == [isNone |-> FALSE, apps |-> mem]

ScanReturn(src, mem) ==
    CASE src = "registry" -> ScanRegistryApps
      [] src = "start_menu" -> ScanStartMenu
      [] src = "store" -> ScanStoreApps
      [] src = "memory" -> GetAllApps(mem)

\* "apps.update(<source>())" for the sources from index i on; update(None)
\* raises TypeError and ends the scan
RECURSIVE FullScan(_, _, _)
FullScan(i, apps, mem) ==
    IF i > Len(ScanSources)
    THEN [raised |-> FALSE, apps |-> apps, scans |-> <<>>]
    ELSE LET r == ScanReturn(ScanSources[i], mem)
         IN  IF r.isNone
             THEN [raised |-> TRUE, apps |-> apps,
                   scans |-> <<ScanSources[i]>>]
             ELSE LET rest == FullScan(i + 1, DictUpdate(apps, r.apps), mem)
                  IN  [raised |-> rest.raised, apps |-> rest.apps,
                       scans |-> <<ScanSources[i]>> \o rest.scans]

\* _load_apps_with_cache(): what it returns or raises, the scans it invoked
\* and the cache file it leaves
LoadAppsWithCache(cache, now, regtime, regok, mem) ==
    IF UsesCache(cache, now, SystemAppModifiedTime(regtime, regok))
    THEN [kind |-> "value", apps |-> cache.content, scans |-> <<>>,
          cache |-> cache, wrote |-> FALSE]
    ELSE LET f == FullScan(1, EmptyDict, mem)
         IN  IF f.raised
             THEN [kind |-> "TypeError", apps |-> EmptyDict,
                   scans |-> f.scans, cache |-> cache, wrote |-> FALSE]
             ELSE [kind |-> "value", apps |-> f.apps, scans |-> f.scans,
                   cache |-> [exists |-> TRUE, mtime |-> now,
                              content |-> f.apps],
                   wrote |-> TRUE]

NoResult_k == [kind |-> "none", apps |-> EmptyDict, count |-> 0]
NoLoad ==
    [loaded |-> FALSE, cache |-> NoCacheFile, now |-> 0,
     regtime |-> [k \in UninstallKeys |-> 0],
     regok |-> [k \in UninstallKeys |-> FALSE]]
LoadEntry(cache) ==
    [loaded |-> TRUE, cache |-> cache, now |-> k_now, regtime |-> k_regtime,
     regok |-> k_regok]

ScanIdle ==
    /\ k_now = 0
    /\ k_cache = NoCacheFile
    /\ k_regtime = [k \in UninstallKeys |-> 0]
    /\ k_regok = [k \in UninstallKeys |-> FALSE]
    /\ k_mem = EmptyDict
    /\ k_built = FALSE
    /\ k_apps = EmptyDict
    /\ k_op = "off"
    /\ k_result = NoResult_k
    /\ k_scans = <<>>
    /\ k_wrote = FALSE
    /\ k_pre = NoLoad

\* the machine before an AppManager exists: any clock, a cache file left by
\* an earlier run or none, registry keys modified at some time in the past
ScanInit ==
    /\ k_now \in ClockTimes
    /\ k_cache \in {c \in CacheFiles : c.mtime <= k_now}
    /\ k_regok \in [UninstallKeys -> BOOLEAN]
    /\ k_regtime \in [UninstallKeys -> {t \in ClockTimes : t <= k_now}]
    /\ \A k \in UninstallKeys : ~k_regok[k] => k_regtime[k] = 0
    /\ k_mem \in Mappings
    /\ k_built = FALSE
    /\ k_apps = EmptyDict
    /\ k_op = "none"
    /\ k_result = NoResult_k
    /\ k_scans = <<>>
    /\ k_wrote = FALSE
    /\ k_pre = NoLoad

scanOthers == <<retryVars, llmVars, sessVars, appVars, sugVars, webVars,
                 detVars, wizVars, macVars, fwVars, bkVars>>

scanWorld == <<k_now, k_regtime, k_regok, k_mem>>

\* AppManager(memory_manager): "self.apps = self._load_apps_with_cache()";
\* an exception leaves no instance
ScanConstruct ==
    LET r == LoadAppsWithCache(k_cache, k_now, k_regtime, k_regok, k_mem)
    IN  /\ ~k_built
        /\ k_pre' = LoadEntry(k_cache)
        /\ k_cache' = r.cache
        /\ k_built' = (r.kind = "value")
        /\ k_apps' = IF r.kind = "value" THEN r.apps ELSE k_apps
        /\ k_op' = "init"
        /\ k_result' = [kind |-> r.kind, apps |-> r.apps, count |-> 0]
        /\ k_scans' = r.scans
        /\ k_wrote' = r.wrote
        /\ UNCHANGED scanWorld
        /\ UNCHANGED scanOthers

\* rescan_apps(): unlink the cache file if it exists (OSError gives the
\* error string), then "self.apps = self._load_apps_with_cache()"
RescanApps(unlinkFails) ==
    LET deleted == IF k_cache.exists THEN NoCacheFile ELSE k_cache
        r == LoadAppsWithCache(deleted, k_now, k_regtime, k_regok, k_mem)
    IN  /\ k_built
        /\ k_op' = "rescan"
        /\ IF k_cache.exists /\ unlinkFails
           THEN /\ k_result' = [kind |-> "error_message",
                                apps |-> EmptyDict, count |-> 0]
                /\ k_pre' = NoLoad
                /\ k_scans' = <<>>
                /\ k_wrote' = FALSE
                /\ UNCHANGED <<k_cache, k_apps>>
           ELSE /\ k_pre' = LoadEntry(deleted)
                /\ k_cache' = r.cache
                /\ k_scans' = r.scans
                /\ k_wrote' = r.wrote
                /\ k_apps' = IF r.kind = "value" THEN r.apps ELSE k_apps
                /\ k_result' =
                      IF r.kind = "value"
                      THEN [kind |-> "message", apps |-> EmptyDict,
                            count |-> Count(r.apps)]
                      ELSE [kind |-> r.kind, apps |-> EmptyDict,
                            count |-> 0]
        /\ UNCHANGED <<k_built, scanWorld>>
        /\ UNCHANGED scanOthers

\* time passes
ScanTick ==
    /\ k_now + TickHours <= MaxClock
    /\ k_now' = k_now + TickHours
    /\ UNCHANGED <<k_cache, k_regtime, k_regok, k_mem, k_built, k_apps,
                   k_op, k_result, k_scans, k_wrote, k_pre>>
    /\ UNCHANGED scanOthers

\* an installer or uninstaller modifies a registry Uninstall key
RegistryTouch(k) ==
    /\ k_regok[k]
    /\ k_regtime[k] # k_now
    /\ k_regtime' = [k_regtime EXCEPT ![k] = k_now]
    /\ UNCHANGED <<k_now, k_cache, k_regok, k_mem, k_built, k_apps, k_op,
                   k_result, k_scans, k_wrote, k_pre>>
    /\ UNCHANGED scanOthers

NextScan ==
    \/ ScanConstruct
    \/ \E unlinkFails \in BOOLEAN : RescanApps(unlinkFails)
    \/ ScanTick
    \/ \E k \in UninstallKeys : RegistryTouch(k)

(***************************************************************************)
(* SuggestionEngine (src/suggestion_engine.py)                             *)
(***************************************************************************)
Hours == 0..23
Weekdays == 0..6
Commands == {"open chrome", "play music"}
NoCommand == "None"
PredictRaises == "raise"
FrequentLists ==
    {<<>>, <<"open chrome">>, <<"play music">>,
     <<"open chrome", "play music">>, <<"play music", "open chrome">>}
Frequent3Lists == {<<>>, <<"open chrome">>, <<"open chrome", "play music">>}
MemoryCalls == {"frequent", "frequent3", "reminders"}

\* "suggestions[:3]"
MaxSuggestions == 3

Suggestion(kind, args) == [kind |-> kind, args |-> args]

\* "Based on your routine, should I run the command '...'?"
Routine(cmd) == Suggestion("routine", <<cmd>>)

ReminderTexts(n) == [i \in 1..n |-> Suggestion("reminder", <<"reminder">>)]

When(cond, s) == IF cond THEN <<s>> ELSE <<>>

TruncateNone(s) == s

\* "return suggestions[:3]"
Truncate(s) == SubSeq(s, 1, IF Len(s) < MaxSuggestions THEN Len(s)
                            ELSE MaxSuggestions)

\* Step 1: the prediction
AfterPrediction(pred) == When(pred # NoCommand, Routine(pred))

\* the frequent-command rule
AfterFrequent(s, pred, freq) ==
    s \o When(freq # <<>> /\ freq[1] # pred,
              Suggestion("frequent", <<freq[1]>>))

\* the three clock rules that call nothing
AfterClock(s, hour, wday) ==
    s \o When(7 <= hour /\ hour < 10, Suggestion("morning", <<>>))
      \o When(8 <= hour /\ hour < 10 /\ wday < 5, Suggestion("workday", <<>>))
      \o When(13 <= hour /\ hour < 14, Suggestion("break", <<>>))

\* "apps" is assigned only between 17 and 19 o'clock
AppsBound(hour) == 17 <= hour /\ hour < 19

\* the list built by the body of generate_suggestions; an exception inside
\* the try block (a memory store call raising, or "if apps:" reading the
\* unassigned local) is logged and ends the rules with what was appended
BuildSuggestions(hour, wday, pred, freq, freq3, rem, fail) ==
    LET s1 == AfterPrediction(pred)
        s2 == AfterFrequent(s1, pred, freq)
        s3 == AfterClock(s2, hour, wday)
        s4 == s3 \o When(freq3 # <<>>, Suggestion("wrapup", freq3))
        s5 == s4 \o ReminderTexts(rem)
    IN  IF fail = "frequent" THEN s1
        ELSE IF ~AppsBound(hour) THEN s3
        ELSE IF fail = "frequent3" THEN s3
        ELSE IF fail = "reminders" THEN s4
        ELSE s5

GenerateSuggestions(hour, wday, pred, freq, freq3, rem, fail) ==
    Truncate(BuildSuggestions(hour, wday, pred, freq, freq3, rem, fail))

SugIdle ==
    /\ g_hour = 0
    /\ g_wday = 0
    /\ g_pred = NoCommand
    /\ g_freq = <<>>
    /\ g_freq3 = <<>>
    /\ g_rem = 0
    /\ g_fail = "none"
    /\ g_pc = "off"
    /\ g_result = <<>>

\* any clock, any predictor answer, any memory store content
SugInit ==
    /\ g_hour \in Hours
    /\ g_wday \in Weekdays
    /\ g_pred \in Commands \cup {NoCommand, PredictRaises}
    /\ g_freq \in FrequentLists
    /\ g_freq3 \in Frequent3Lists
    /\ g_rem \in 0..MaxReminders
    /\ g_fail \in MemoryCalls \cup {"none"}
    /\ g_pc = "ready"
    /\ g_result = <<>>

sugOthers == <<retryVars, llmVars, sessVars, appVars, scanVars, webVars,
                detVars, wizVars, macVars, fwVars, bkVars>>

sugInputs == <<g_hour, g_wday, g_pred, g_freq, g_freq3, g_rem, g_fail>>

\* generate_suggestions() runs and returns
SugGenerate ==
    /\ g_pc = "ready"
    /\ g_pred # PredictRaises
    /\ g_pc' = "returned"
    /\ g_result' = GenerateSuggestions(g_hour, g_wday, g_pred, g_freq,
                                       g_freq3, g_rem, g_fail)
    /\ UNCHANGED sugInputs
    /\ UNCHANGED sugOthers

\* predictor.predict raises outside the try block: the exception leaves
\* generate_suggestions
SugPredictRaises ==
    /\ g_pc = "ready"
    /\ g_pred = PredictRaises
    /\ g_pc' = "raised"
    /\ UNCHANGED g_result
    /\ UNCHANGED sugInputs
    /\ UNCHANGED sugOthers

NextSug ==
    \/ SugGenerate
    \/ SugPredictRaises

(***************************************************************************)
(* WebAgent (src/web_agent.py)                                             *)
(***************************************************************************)
\* two coroutines of the assistant's event loop use the agent
WebCallers == {1, 2}
WebOps == {"navigate", "initialize"}
TotalRamChoices == {8, 12}
AvailChoices == {400, 500, 600}
KnownModes == {"lightweight", "balanced", "full"}
RequestedModes == KnownModes \cup {"turbo"}

\* "if available_mb < 500"
MinAvailableMb == 500

\* "self.total_ram_gb < 12"
FullModeMinGb == 12

LowMemoryNever(available_mb) == FALSE

\* "if available_mb < 500: ... return False"
LowMemory(available_mb) == available_mb < MinAvailableMb

RefusesFullNever(new_mode, total_ram_gb) == FALSE

\* "if new_mode == "full" and self.total_ram_gb < 12: return False"
RefusesFull(new_mode, total_ram_gb) ==
    new_mode = "full" /\ total_ram_gb < FullModeMinGb

\* the fields upgrade_mode assigns for an accepted mode
MemoryOfMode(mode) ==
    CASE mode = "lightweight" -> 300
      [] mode = "balanced" -> 600
      [] mode = "full" -> 1000

VisionOfMode(mode) == mode # "lightweight"

ModeSettings ==
    [mode |-> w_mode, max_memory_mb |-> w_max_memory_mb,
     max_concurrent |-> w_max_concurrent, vision_enabled |-> w_vision]

NoUpgrade ==
    [n |-> 0, new_mode |-> "lightweight", ret |-> "none",
     before |-> [mode |-> "lightweight", max_memory_mb |-> 0,
                 max_concurrent |-> 0, vision_enabled |-> FALSE]]

WebIdle ==
    /\ w_total_gb = 0
    /\ w_avail_mb = 0
    /\ w_mode = "off"
    /\ w_max_memory_mb = 0
    /\ w_max_concurrent = 0
    /\ w_vision = FALSE
    /\ w_up = NoUpgrade
    /\ w_init = FALSE
    /\ w_cleanup = "none"
    /\ w_active = 0
    /\ w_playwright = 0
    /\ w_browser = 0
    /\ w_context = 0
    /\ w_nextObj = 1
    /\ w_engines = 0
    /\ w_pc = [p \in WebCallers |-> "off"]
    /\ w_op = [p \in WebCallers |-> "navigate"]
    /\ w_ret = [p \in WebCallers |-> "none"]
    /\ w_why = [p \in WebCallers |-> "none"]
    /\ w_calls = 0
    /\ w_cpc = "off"
    /\ w_closes = 0
    /\ w_closed = 0

\* WebAgent.__init__ on a host with some amount of RAM; the module globals
\* are None
WebInit ==
    /\ w_total_gb \in TotalRamChoices
    /\ w_avail_mb \in AvailChoices
    /\ w_mode = IF w_total_gb < FullModeMinGb THEN "lightweight"
                ELSE "balanced"
    /\ w_max_memory_mb = IF w_total_gb < FullModeMinGb THEN 300 ELSE 600
    /\ w_max_concurrent = IF w_total_gb < FullModeMinGb THEN 1 ELSE 2
    /\ w_vision = ~(w_total_gb < FullModeMinGb)
    /\ w_up = NoUpgrade
    /\ w_init = FALSE
    /\ w_cleanup = "none"
    /\ w_active = 0
    /\ w_playwright = 0
    /\ w_browser = 0
    /\ w_context = 0
    /\ w_nextObj = 1
    /\ w_engines = 0
    /\ w_pc = [p \in WebCallers |-> "idle"]
    /\ w_op = [p \in WebCallers |-> "navigate"]
    /\ w_ret = [p \in WebCallers |-> "none"]
    /\ w_why = [p \in WebCallers |-> "none"]
    /\ w_calls = 0
    /\ w_cpc = "idle"
    /\ w_closes = 0
    /\ w_closed = 0

webOthers == <<retryVars, llmVars, sessVars, appVars, scanVars, sugVars,
                detVars, wizVars, macVars, fwVars, bkVars>>

\* the call of p returns ret
WebFinish(p, ret, why) ==
    /\ w_pc' = [w_pc EXCEPT ![p] = "done"]
    /\ w_ret' = [w_ret EXCEPT ![p] = ret]
    /\ w_why' = [w_why EXCEPT ![p] = why]

\* initialize() returned True.  initialize() itself is then over; navigate()
\* goes on, without suspending, through _check_resources() and
\* "self.active_tasks += 1" to "await _browser_context.new_page()", which
\* raises at once when the global context is None ("finally" then undoes
\* the increment)
WebInitializeTrue(p, op, resourcesOk, context) ==
    IF op = "initialize"
    THEN WebFinish(p, "True", "none") /\ UNCHANGED w_active
    ELSE IF ~resourcesOk
    THEN WebFinish(p, "None", "resources") /\ UNCHANGED w_active
    ELSE IF context = 0
    THEN WebFinish(p, "None", "nav_error") /\ UNCHANGED w_active
    ELSE /\ w_pc' = [w_pc EXCEPT ![p] = "await_page"]
         /\ w_ret' = [w_ret EXCEPT ![p] = "none"]
         /\ w_why' = [w_why EXCEPT ![p] = "none"]
         /\ w_active' = w_active + 1

\* initialize() returned False: "if not await self.initialize(): return None"
WebInitializeFalse(p, op, why) ==
    /\ WebFinish(p, IF op = "initialize" THEN "False" ELSE "None", why)
    /\ UNCHANGED w_active

\* a caller starts navigate(url) or initialize(); the coroutine runs up to
\* its first await: initialize() finds the agent initialised, refuses for
\* low memory, or reaches "await async_playwright().start()"
WebCall(p, op, resourcesOk) ==
    /\ w_pc[p] \in {"idle", "done"}
    /\ w_calls < MaxWebCalls
    /\ IF w_init
       THEN WebInitializeTrue(p, op, resourcesOk, w_context)
       ELSE IF LowMemory(w_avail_mb)
       THEN WebInitializeFalse(p, op, "low_memory")
       ELSE /\ w_pc' = [w_pc EXCEPT ![p] = "await_start"]
            /\ w_ret' = [w_ret EXCEPT ![p] = "none"]
            /\ w_why' = [w_why EXCEPT ![p] = "none"]
            /\ UNCHANGED w_active
    /\ w_op' = [w_op EXCEPT ![p] = op]
    /\ w_calls' = w_calls + 1
    /\ UNCHANGED <<webHost, webMode, webFlags, webBrowser, webCloser>>
    /\ UNCHANGED webOthers

\* "_playwright = await async_playwright().start()" completes or raises
WebInitStarted(p, ok) ==
    /\ w_pc[p] = "await_start"
    /\ IF ok
       THEN /\ w_playwright' = w_nextObj
            /\ w_nextObj' = w_nextObj + 1
            /\ w_pc' = [w_pc EXCEPT ![p] = "await_launch"]
            /\ UNCHANGED <<w_ret, w_why, w_active>>
       ELSE /\ WebInitializeFalse(p, w_op[p], "init_error")
            /\ UNCHANGED <<w_playwright, w_nextObj>>
    /\ UNCHANGED <<webHost, webMode, webFlags, w_browser, w_context,
                   w_engines, webCloser>>
    /\ UNCHANGED <<w_op, w_calls>>
    /\ UNCHANGED webOthers

\* "_playwright_browser = await _playwright.chromium.launch(...)" completes
\* or raises
WebInitLaunched(p, ok) ==
    /\ w_pc[p] = "await_launch"
    /\ IF ok
       THEN /\ w_browser' = w_nextObj
            /\ w_nextObj' = w_nextObj + 1
            /\ w_engines' = w_engines + 1
            /\ w_pc' = [w_pc EXCEPT ![p] = "await_context"]
            /\ UNCHANGED <<w_ret, w_why, w_active>>
       ELSE /\ WebInitializeFalse(p, w_op[p], "init_error")
            /\ UNCHANGED <<w_browser, w_nextObj, w_engines>>
    /\ UNCHANGED <<webHost, webMode, webFlags, w_playwright, w_context,
                   webCloser>>
    /\ UNCHANGED <<w_op, w_calls>>
    /\ UNCHANGED webOthers

\* "_browser_context = await _playwright_browser.new_context(...)", then
\* is_initialized = True, the cleanup task is created if there is none, and
\* initialize() returns True
WebInitContext(p, ok, resourcesOk) ==
    /\ w_pc[p] = "await_context"
    /\ IF ok
       THEN /\ w_context' = w_nextObj
            /\ w_nextObj' = w_nextObj + 1
            /\ w_init' = TRUE
            /\ w_cleanup' = IF w_cleanup = "none" THEN "running"
                            ELSE w_cleanup
            /\ WebInitializeTrue(p, w_op[p], resourcesOk, w_nextObj)
       ELSE /\ WebInitializeFalse(p, w_op[p], "init_error")
            /\ UNCHANGED <<w_context, w_nextObj, w_init, w_cleanup>>
    /\ UNCHANGED <<webHost, webMode, w_playwright, w_browser, w_engines,
                   webCloser>>
    /\ UNCHANGED <<w_op, w_calls>>
    /\ UNCHANGED webOthers

ActiveAfterOnlyOnSuccess(active, ok) == IF ok THEN active - 1 ELSE active

\* "finally: self.active_tasks -= 1", whether or not the body raised
ActiveAfterNavigate(active, ok) == active - 1

\* "page = await _browser_context.new_page()" completes or raises; on the
\* exception path "finally" decrements
WebPageOpened(p, ok) ==
    /\ w_pc[p] = "await_page"
    /\ IF ok
       THEN /\ w_pc' = [w_pc EXCEPT ![p] = "await_goto"]
            /\ UNCHANGED <<w_ret, w_why, w_active>>
       ELSE /\ WebFinish(p, "None", "nav_error")
            /\ w_active' = ActiveAfterNavigate(w_active, ok)
    /\ UNCHANGED <<webHost, webMode, webFlags, webBrowser, webCloser>>
    /\ UNCHANGED <<w_op, w_calls>>
    /\ UNCHANGED webOthers

\* "await page.goto(...)" completes or raises; "finally" decrements
WebGotoDone(p, ok) ==
    /\ w_pc[p] = "await_goto"
    /\ IF ok
       THEN WebFinish(p, "page", "none")
       ELSE WebFinish(p, "None", "nav_error")
    /\ w_active' = ActiveAfterNavigate(w_active, ok)
    /\ UNCHANGED <<webHost, webMode, webFlags, webBrowser, webCloser>>
    /\ UNCHANGED <<w_op, w_calls>>
    /\ UNCHANGED webOthers

\* upgrade_mode(new_mode); an accepted call runs off the end of the
\* function and so returns None
WebUpgradeMode(new_mode) ==
    LET rejected == new_mode \notin KnownModes
                    \/ RefusesFull(new_mode, w_total_gb)
    IN  /\ w_up.n < MaxUpgrades
        /\ w_up' = [n |-> w_up.n + 1, new_mode |-> new_mode,
                    ret |-> IF rejected THEN "False" ELSE "True",
                    before |-> ModeSettings]
        /\ IF rejected
           THEN UNCHANGED <<w_mode, w_max_memory_mb, w_vision>>
           ELSE /\ w_mode' = new_mode
                /\ w_max_memory_mb' = MemoryOfMode(new_mode)
                /\ w_vision' = VisionOfMode(new_mode)
        /\ UNCHANGED w_max_concurrent
        /\ UNCHANGED <<webHost, webFlags, w_active, webBrowser, webCallers,
                       webCloser>>
        /\ UNCHANGED webOthers

\* _auto_cleanup_loop wakes from its sleep and finds the agent initialised,
\* idle for more than auto_close_timeout and without active tasks: it awaits
\* self.close().  Inside, cancel() and await on the loop's own task end in a
\* CancelledError that close() swallows, and close() goes on
WebIdleClose ==
    /\ w_cleanup = "running"
    /\ w_init
    /\ w_active = 0
    /\ w_cpc = "idle"
    /\ w_cleanup' = "closing"
    /\ w_cpc' = "context"
    /\ UNCHANGED <<webHost, webMode, w_init, w_active, webBrowser,
                   webCallers, w_closes, w_closed>>
    /\ UNCHANGED webOthers

\* close() is over; when the cleanup loop called it, the loop breaks and
\* its task is finished
CleanupAfterClose(cleanup) ==
    IF cleanup = "closing" THEN "finished" ELSE cleanup

\* close(): nothing when not initialised; else the cleanup task is
\* cancelled and awaited
WebCloseCall ==
    /\ w_cpc = "idle"
    /\ w_closes < MaxWebCloses
    /\ w_closes' = w_closes + 1
    /\ IF ~w_init
       THEN UNCHANGED <<w_cpc, w_cleanup>>
       ELSE /\ w_cleanup' = IF w_cleanup = "running" THEN "cancelled"
                            ELSE w_cleanup
            /\ w_cpc' = "context"
    /\ UNCHANGED <<webHost, webMode, w_init, w_active, webBrowser,
                   webCallers, w_closed>>
    /\ UNCHANGED webOthers

\* "if _browser_context: await _browser_context.close();
\* _browser_context = None"; an exception ends close() in its except
WebCloseContext(ok) ==
    /\ w_cpc = "context"
    /\ IF w_context = 0
       THEN w_cpc' = "browser" /\ UNCHANGED <<w_context, w_cleanup>>
       ELSE IF ok
       THEN w_cpc' = "browser" /\ w_context' = 0 /\ UNCHANGED w_cleanup
       ELSE /\ w_cpc' = "idle"
            /\ w_cleanup' = CleanupAfterClose(w_cleanup)
            /\ UNCHANGED w_context
    /\ UNCHANGED <<webHost, webMode, w_init, w_active, w_playwright,
                   w_browser, w_nextObj, w_engines, webCallers, w_closes,
                   w_closed>>
    /\ UNCHANGED webOthers

\* "if _playwright_browser: await _playwright_browser.close();
\* _playwright_browser = None"
WebCloseBrowser(ok) ==
    /\ w_cpc = "browser"
    /\ IF w_browser = 0
       THEN w_cpc' = "playwright" /\ UNCHANGED <<w_browser, w_cleanup>>
       ELSE IF ok
       THEN w_cpc' = "playwright" /\ w_browser' = 0 /\ UNCHANGED w_cleanup
       ELSE /\ w_cpc' = "idle"
            /\ w_cleanup' = CleanupAfterClose(w_cleanup)
            /\ UNCHANGED w_browser
    /\ UNCHANGED <<webHost, webMode, w_init, w_active, w_playwright,
                   w_context, w_nextObj, w_engines, webCallers, w_closes,
                   w_closed>>
    /\ UNCHANGED webOthers

\* "if _playwright: await _playwright.stop(); _playwright = None", then
\* "self.is_initialized = False"
WebClosePlaywright(ok) ==
    /\ w_cpc = "playwright"
    /\ w_cpc' = "idle"
    /\ w_cleanup' = CleanupAfterClose(w_cleanup)
    /\ IF w_playwright # 0 /\ ~ok
       THEN UNCHANGED <<w_playwright, w_init, w_closed>>
       ELSE /\ w_playwright' = 0
            /\ w_init' = FALSE
            /\ w_closed' = w_closed + 1
    /\ UNCHANGED <<webHost, webMode, w_active, w_browser,
                   w_context, w_nextObj, w_engines, webCallers, w_closes>>
    /\ UNCHANGED webOthers

\* other processes take or free memory
WebMemoryChanges(mb) ==
    /\ mb # w_avail_mb
    /\ w_avail_mb' = mb
    /\ UNCHANGED <<w_total_gb, webMode, webFlags, w_active, webBrowser,
                   webCallers, webCloser>>
    /\ UNCHANGED webOthers

NextWeb ==
    \/ \E p \in WebCallers, op \in WebOps, resourcesOk \in BOOLEAN :
          WebCall(p, op, resourcesOk)
    \/ \E p \in WebCallers, ok \in BOOLEAN : WebInitStarted(p, ok)
    \/ \E p \in WebCallers, ok \in BOOLEAN : WebInitLaunched(p, ok)
    \/ \E p \in WebCallers, ok \in BOOLEAN, resourcesOk \in BOOLEAN :
          WebInitContext(p, ok, resourcesOk)
    \/ \E p \in WebCallers, ok \in BOOLEAN : WebPageOpened(p, ok)
    \/ \E p \in WebCallers, ok \in BOOLEAN : WebGotoDone(p, ok)
    \/ WebCloseCall
    \/ WebIdleClose
    \/ \E ok \in BOOLEAN : WebCloseContext(ok)
    \/ \E ok \in BOOLEAN : WebCloseBrowser(ok)
    \/ \E ok \in BOOLEAN : WebClosePlaywright(ok)
    \/ \E mb \in AvailChoices : WebMemoryChanges(mb)

\* upgrade_mode reads and writes only the mode fields and total_ram_gb, which
\* no other method assigns: it is driven on its own
NextWebMode == \E new_mode \in RequestedModes : WebUpgradeMode(new_mode)

(***************************************************************************)
(* WakeWordDetector (src/wake_word.py)                                     *)
(***************************************************************************)
\* "DEBOUNCE_S = 1.5", in tenths of a second
DebounceTenths == 15

\* "audio_q.get(timeout=0.5)", in tenths of a second
EmptyTimeoutTenths == 5

\* "audio_q = queue.Queue(maxsize=10)"
AudioQueueMax == 10

\* time between two passes of the loop, in tenths of a second
BlockGaps == {1, 7, 8}

\* time.time() is far from 0.0 when the detector is built
WakeStartTime == DebounceTenths + EmptyTimeoutTenths

\* a wake event: what triggered it, the thread that pushed it, whether a
\* high score had been debounced before it, and the time since the event
\* before it (NoGap for the first one) with that event's thread
NoGap == -1
NoFire ==
    [auto |-> FALSE, manual |-> FALSE, run |-> 0, held |-> FALSE,
     gap |-> NoGap, prevRun |-> 0]

DebouncedAlways(now, last_trigger) == TRUE

\* "(now - last_trigger) > DEBOUNCE_S"
Debounced(now, last_trigger) == (now - last_trigger) > DebounceTenths

\* "auto = score >= THRESHOLD and (now - last_trigger) > DEBOUNCE_S"
Auto(high, now, last_trigger) == high /\ Debounced(now, last_trigger)

DetIdle ==
    /\ d_running = FALSE
    /\ d_thread = "off"
    /\ d_hooked = FALSE
    /\ d_hotkey = FALSE
    /\ d_now = 0
    /\ d_last_trigger = 0
    /\ d_q = 0
    /\ d_cb = "idle"
    /\ d_run = 0
    /\ d_held = FALSE
    /\ d_fireAt = 0
    /\ d_lastFire = NoFire

\* WakeWordDetector.__init__: not running, no thread, hot-key registered
DetInit ==
    /\ d_running = FALSE
    /\ d_thread = "none"
    /\ d_hooked = TRUE
    /\ d_hotkey = FALSE
    /\ d_now = WakeStartTime
    /\ d_last_trigger = 0
    /\ d_q = 0
    /\ d_cb = "idle"
    /\ d_run = 0
    /\ d_held = FALSE
    /\ d_fireAt = 0
    /\ d_lastFire = NoFire

detOthers == <<retryVars, llmVars, sessVars, appVars, scanVars, sugVars,
                webVars, wizVars, macVars, fwVars, bkVars>>

detHistory == <<d_held, d_fireAt, d_lastFire>>

detAudio == <<d_q, d_cb>>

\* start(): a new _listen_loop thread, whose last_trigger is 0.0
DetStart(dt) ==
    /\ ~d_running
    /\ d_thread \in {"none", "exited"}
    /\ d_run < MaxStarts
    /\ d_now + dt <= MaxWakeClock
    /\ d_now' = d_now + dt
    /\ d_running' = TRUE
    /\ d_thread' = "alive"
    /\ d_last_trigger' = 0
    /\ d_q' = 0
    /\ d_cb' = "idle"
    /\ d_run' = d_run + 1
    /\ UNCHANGED <<d_hooked, d_hotkey, detHistory>>
    /\ UNCHANGED detOthers

\* stop(): running = False, every hot-key unhooked
DetStop ==
    /\ d_running
    /\ d_running' = FALSE
    /\ d_hooked' = FALSE
    /\ UNCHANGED <<d_thread, d_hotkey, d_now, d_last_trigger, d_run,
                   detHistory, detAudio>>
    /\ UNCHANGED detOthers

\* "while self.running" is false: stream.stop(), which returns once the
\* audio callback has returned; then the stream is closed, the thread ends
\* and its local audio_q is gone
DetExit ==
    /\ d_thread = "alive"
    /\ ~d_running
    /\ IF d_cb = "blocked"
       THEN d_thread' = "stopping" /\ UNCHANGED detAudio
       ELSE d_thread' = "exited" /\ d_q' = 0 /\ d_cb' = "idle"
    /\ UNCHANGED <<d_running, d_hooked, d_hotkey, d_now, d_last_trigger,
                   d_run, detHistory>>
    /\ UNCHANGED detOthers

\* ctrl+space is pressed: _hotkey_callback
DetHotkey ==
    /\ d_hooked
    /\ ~d_hotkey
    /\ d_hotkey' = TRUE
    /\ UNCHANGED <<d_running, d_thread, d_hooked, d_now, d_last_trigger,
                   d_run, detHistory, detAudio>>
    /\ UNCHANGED detOthers

\* "except queue.Empty: continue": no audio block for half a second
DetEmpty ==
    /\ d_thread = "alive"
    /\ d_running
    /\ d_q = 0
    /\ d_now + EmptyTimeoutTenths <= MaxWakeClock
    /\ d_now' = d_now + EmptyTimeoutTenths
    /\ UNCHANGED <<d_running, d_thread, d_hooked, d_hotkey, d_last_trigger,
                   d_run, detHistory, detAudio>>
    /\ UNCHANGED detOthers

\* the audio thread delivers a block: callback does audio_q.put(indata.copy()),
\* which blocks while the queue is full
DetCallback ==
    /\ d_thread = "alive"
    /\ d_cb = "idle"
    /\ IF d_q < AudioQueueMax
       THEN d_q' = d_q + 1 /\ d_cb' = d_cb
       ELSE d_q' = d_q /\ d_cb' = "blocked"
    /\ UNCHANGED <<d_running, d_thread, d_hooked, d_hotkey, d_now,
                   d_last_trigger, d_run, detHistory>>
    /\ UNCHANGED detOthers

\* one pass of the loop body with an audio block (a blocked put completes
\* when the block is taken): the silence gate, the score, then
\* "if auto or manual:" fire, last_trigger = now, flag cleared
DetBlock(dt, loud, high) ==
    LET now == d_now + dt
        auto == Auto(high, now, d_last_trigger)
        manual == d_hotkey
    IN  /\ d_thread = "alive"
        /\ d_running
        /\ d_q > 0
        /\ now <= MaxWakeClock
        /\ d_now' = now
        /\ IF d_cb = "blocked"
           THEN d_q' = d_q /\ d_cb' = "idle"
           ELSE d_q' = d_q - 1 /\ d_cb' = d_cb
        /\ IF loud /\ (auto \/ manual)
           THEN /\ d_last_trigger' = now
                /\ d_hotkey' = FALSE
                /\ d_fireAt' = now
                /\ d_lastFire' = [auto |-> auto, manual |-> manual,
                                  run |-> d_run, held |-> d_held,
                                  gap |-> IF d_lastFire.run = 0 THEN NoGap
                                          ELSE now - d_fireAt,
                                  prevRun |-> d_lastFire.run]
                /\ d_held' = FALSE
           ELSE /\ d_held' = (d_held \/ (loud /\ high))
                /\ UNCHANGED <<d_last_trigger, d_hotkey, d_fireAt,
                               d_lastFire>>
        /\ UNCHANGED <<d_running, d_thread, d_hooked, d_run>>
        /\ UNCHANGED detOthers

NextDet ==
    \/ \E dt \in BlockGaps : DetStart(dt)
    \/ DetStop
    \/ DetExit
    \/ DetHotkey
    \/ DetEmpty
    \/ DetCallback
    \/ \E dt \in BlockGaps, loud \in BOOLEAN, high \in BOOLEAN :
          DetBlock(dt, loud, high)

(***************************************************************************)
(* FirstRunWizard and should_run_wizard (src/first_run_wizard.py)          *)
(***************************************************************************)
\* self.pages, in order; current_page is a 0-based index into it
Pages == <<"welcome", "system_check", "api_keys", "performance",
           "features", "final">>

LastPage == Len(Pages) - 1

\* the page finish() goes back to: self.show_page(2)
ApiKeysPage == 2

\* the placeholder marker "your_"
Placeholder == <<"y", "o", "u", "r", "_">>

\* texts the user may leave in the Gemini key entry
EmptyKey == <<>>
GoodKey == <<"A", "I", "z", "a">>
NearKey == <<"y", "o", "u", "r">>
PlaceholderKey == <<"y", "o", "u", "r", "_", "k">>
EmbeddedKey == <<"A", "y", "o", "u", "r", "_">>
Keys == {EmptyKey, GoodKey, NearKey, PlaceholderKey, EmbeddedKey}

\* Python's  sub in s  on strings
Contains(s, sub) ==
    \E i \in 1..(Len(s) - Len(sub) + 1) : SubSeq(s, i, i + Len(sub) - 1) = sub

FinishRefusesEmptyOnly(key) == key = <<>>

\* not self.config["gemini_api_key"] or "your_" in self.config["gemini_api_key"]
FinishRefuses(key) == key = <<>> \/ Contains(key, Placeholder)

ShouldRunWizardMarkerOnly(marker, env) == ~marker

\* should_run_wizard(): not marker.exists() or not env_exists
ShouldRunWizard(marker, env) == ~marker \/ ~env

\* the call of finish() that raises, if any
IoOutcomes == {"ok", "open", "mkdir", "touch", "Popen"}

\* save_config(): the calls that took effect, and whether one raised
SaveConfig(io) ==
    CASE io = "open" -> [log |-> <<>>, raised |-> TRUE]
      [] io = "mkdir" -> [log |-> <<"write_env">>, raised |-> TRUE]
      [] io = "touch" -> [log |-> <<"write_env", "mkdir">>, raised |-> TRUE]
      [] OTHER -> [log |-> <<"write_env", "mkdir", "touch_marker">>,
                   raised |-> FALSE]

\* finish(): the calls that took effect, in order
Finish(key, io) ==
    IF FinishRefuses(key)
    THEN <<"showwarning", "show_page">>
    ELSE LET saved == SaveConfig(io) IN
         IF saved.raised
         THEN saved.log \o <<"showerror">>
         ELSE saved.log \o <<"showinfo", "quit">>
              \o (IF io = "Popen" THEN <<"showerror">> ELSE <<"Popen">>)

Did(log, call) == \E i \in 1..Len(log) : log[i] = call

NoCheck == [called |-> FALSE, marker |-> FALSE, env |-> FALSE, ret |-> FALSE]

NoFinish == [called |-> FALSE, key |-> EmptyKey, log |-> <<>>, page |-> 0,
             open |-> FALSE, envBefore |-> FALSE, markerBefore |-> FALSE,
             envAfter |-> FALSE, markerAfter |-> FALSE]

WizIdle ==
    /\ wz_env = FALSE
    /\ wz_marker = FALSE
    /\ wz_open = FALSE
    /\ wz_page = 0
    /\ wz_key = EmptyKey
    /\ wz_runs = 0
    /\ wz_launches = 0
    /\ wz_chk = NoCheck
    /\ wz_fin = NoFinish
    /\ wz_start = "none"
    /\ wz_base = 0

\* the working directory before the program starts: either file may exist
WizInit ==
    /\ wz_env \in BOOLEAN
    /\ wz_marker \in BOOLEAN
    /\ wz_open = FALSE
    /\ wz_page = 0
    /\ wz_key = EmptyKey
    /\ wz_runs = 0
    /\ wz_launches = 0
    /\ wz_chk = NoCheck
    /\ wz_fin = NoFinish
    /\ wz_start = "none"
    /\ wz_base = 0

wizOthers == <<retryVars, llmVars, sessVars, appVars, scanVars, sugVars,
                webVars, detVars, macVars, fwVars, bkVars>>

wizOrch == <<wz_start, wz_base>>

\* __main__: if should_run_wizard(): wizard = FirstRunWizard(); wizard.run()
WizMain ==
    /\ ~wz_open
    /\ wz_runs < MaxRuns
    /\ wz_runs' = wz_runs + 1
    /\ LET ret == ShouldRunWizard(wz_marker, wz_env) IN
       /\ wz_chk' = [called |-> TRUE, marker |-> wz_marker, env |-> wz_env,
                     ret |-> ret]
       /\ wz_open' = ret
       /\ wz_page' = 0
       /\ wz_key' = EmptyKey
    /\ UNCHANGED <<wz_env, wz_marker, wz_launches, wz_fin>>
    /\ UNCHANGED wizOrch
    /\ UNCHANGED wizOthers

\* next_page() before the last page: show_page(current_page + 1)
WizNextPage ==
    /\ wz_open
    /\ wz_page # LastPage
    /\ wz_page' = wz_page + 1
    /\ UNCHANGED <<wz_env, wz_marker, wz_open, wz_key, wz_runs, wz_launches,
                   wz_chk, wz_fin>>
    /\ UNCHANGED wizOrch
    /\ UNCHANGED wizOthers

\* prev_page()
WizPrevPage ==
    /\ wz_open
    /\ wz_page > 0
    /\ wz_page' = wz_page - 1
    /\ UNCHANGED <<wz_env, wz_marker, wz_open, wz_key, wz_runs, wz_launches,
                   wz_chk, wz_fin>>
    /\ UNCHANGED wizOrch
    /\ UNCHANGED wizOthers

\* a key released in the Gemini entry of the API-keys page: update_config
WizUpdateConfig(key) ==
    /\ wz_open
    /\ Pages[wz_page + 1] = "api_keys"
    /\ wz_key' = key
    /\ UNCHANGED <<wz_env, wz_marker, wz_open, wz_page, wz_runs, wz_launches,
                   wz_chk, wz_fin>>
    /\ UNCHANGED wizOrch
    /\ UNCHANGED wizOthers

\* cancel(), answered yes: self.root.quit()
WizCancel ==
    /\ wz_open
    /\ wz_open' = FALSE
    /\ UNCHANGED <<wz_env, wz_marker, wz_page, wz_key, wz_runs, wz_launches,
                   wz_chk, wz_fin>>
    /\ UNCHANGED wizOrch
    /\ UNCHANGED wizOthers

\* next_page() on the last page: finish()
WizFinish(io) ==
    /\ wz_open
    /\ wz_page = LastPage
    /\ LET log == Finish(wz_key, io)
           env == wz_env \/ Did(log, "write_env")
           marker == wz_marker \/ Did(log, "touch_marker")
           page == IF Did(log, "show_page") THEN ApiKeysPage ELSE wz_page
           open == ~Did(log, "quit")
       IN  /\ wz_env' = env
           /\ wz_marker' = marker
           /\ wz_page' = page
           /\ wz_open' = open
           /\ wz_launches' = wz_launches + (IF Did(log, "Popen") THEN 1 ELSE 0)
           /\ wz_fin' = [called |-> TRUE, key |-> wz_key, log |-> log,
                         page |-> page, open |-> open,
                         envBefore |-> wz_env, markerBefore |-> wz_marker,
                         envAfter |-> env, markerAfter |-> marker]
    /\ UNCHANGED <<wz_key, wz_runs, wz_chk>>
    /\ UNCHANGED wizOrch
    /\ UNCHANGED wizOthers

\* the user deletes the configuration file or the marker between two runs
WizDelete(file) ==
    /\ ~wz_open
    /\ wz_runs > 0
    /\ \/ file = "env" /\ wz_env /\ wz_env' = FALSE /\ UNCHANGED wz_marker
       \/ file = "marker" /\ wz_marker /\ wz_marker' = FALSE
          /\ UNCHANGED wz_env
    /\ UNCHANGED <<wz_open, wz_page, wz_key, wz_runs, wz_launches, wz_chk,
                   wz_fin>>
    /\ UNCHANGED wizOrch
    /\ UNCHANGED wizOthers

\* AssistantApp.start() of main_standalone.py and main.py: "if
\* should_run_wizard(): wizard = FirstRunWizard(); wizard.run()", else
\* straight on to show_widget()
OrchStart ==
    /\ wz_start = "none"
    /\ ~wz_open
    /\ wz_runs < MaxRuns
    /\ wz_runs' = wz_runs + 1
    /\ wz_base' = wz_launches
    /\ LET ret == ShouldRunWizard(wz_marker, wz_env) IN
       /\ wz_chk' = [called |-> TRUE, marker |-> wz_marker, env |-> wz_env,
                     ret |-> ret]
       /\ wz_open' = ret
       /\ wz_start' = IF ret THEN "wizard" ELSE "widget"
       /\ wz_page' = 0
       /\ wz_key' = EmptyKey
    /\ UNCHANGED <<wz_env, wz_marker, wz_launches, wz_fin>>
    /\ UNCHANGED wizOthers

\* wizard.run() returns to start() once the mainloop was quit: "if not
\* Path(".env").exists(): return", else show_widget() starts the assistant
OrchAfterWizard ==
    /\ wz_start = "wizard"
    /\ ~wz_open
    /\ wz_start' = IF wz_env THEN "widget" ELSE "returned"
    /\ UNCHANGED <<wz_env, wz_marker, wz_open, wz_page, wz_key, wz_runs,
                   wz_launches, wz_chk, wz_fin, wz_base>>
    /\ UNCHANGED wizOthers

NextWiz ==
    \/ WizMain
    \/ OrchStart
    \/ OrchAfterWizard
    \/ WizNextPage
    \/ WizPrevPage
    \/ \E key \in Keys : WizUpdateConfig(key)
    \/ WizCancel
    \/ \E io \in IoOutcomes : WizFinish(io)
    \/ \E file \in {"env", "marker"} : WizDelete(file)

(***************************************************************************)
(* MacroSystem (src/macro_system.py, src/macros.py)                        *)
(***************************************************************************)
MacroVariants == {"macro_system", "macros"}

\* the class attribute macros, the same table in both modules
macros ==
    [n \in {"work mode", "gaming mode", "shutdown"} |->
        CASE n = "work mode" ->
                 <<"open vscode", "open chrome", "search in chrome github",
                   "in spotify play lofi hip hop">>
          [] n = "gaming mode" ->
                 <<"open steam", "open discord", "in discord mute",
                   "close chrome">>
          [] n = "shutdown" ->
                 <<"close all apps", "save notepad", "goodbye">>]

\* names run() may be called with; "party mode" is not in the table
MacroNames == DOMAIN macros \cup {"party mode"}

\* asyncio.sleep(0.3), in tenths of a second
PauseTenths == 3

\* how long one proc.execute takes, in tenths of a second
ExecTenths == {0, 2}

MacroStepsAny(name) ==
    IF name \in DOMAIN macros THEN macros[name] ELSE macros["work mode"]

\* self.macros.get(name, []); macro_system.py returns before the loop instead
MacroSteps(name) == IF name \in DOMAIN macros THEN macros[name] ELSE <<>>

MacIdle ==
    /\ m_variant = "macro_system"
    /\ m_name = "work mode"
    /\ m_pc = "off"
    /\ m_i = 0
    /\ m_clock = 0
    /\ m_log = <<>>
    /\ m_runs = 0

\* MacroSystem(proc): nothing running
MacInit ==
    /\ m_variant \in MacroVariants
    /\ m_name = "work mode"
    /\ m_pc = "idle"
    /\ m_i = 0
    /\ m_clock = 0
    /\ m_log = <<>>
    /\ m_runs = 0

macOthers == <<retryVars, llmVars, sessVars, appVars, scanVars, sugVars,
                webVars, detVars, wizVars, fwVars, bkVars>>

\* await self.proc.execute(cmd) is entered for step i
MacroBegin(name, i, now, log) ==
    /\ m_pc' = "exec"
    /\ m_i' = i
    /\ m_log' = Append(log, [ev |-> "begin", cmd |-> MacroSteps(name)[i],
                             at |-> now])

\* run(name), up to its first await
MacroRun(name) ==
    /\ m_pc \in {"idle", "done"}
    /\ m_runs < MaxMacroRuns
    /\ m_runs' = m_runs + 1
    /\ m_name' = name
    /\ m_clock' = 0
    /\ IF MacroSteps(name) = <<>>
       THEN m_pc' = "done" /\ m_i' = 0 /\ m_log' = <<>>
       ELSE IF m_variant = "macro_system"
            THEN m_pc' = "speak" /\ m_i' = 0 /\ m_log' = <<>>
            ELSE MacroBegin(name, 1, 0, <<>>)
    /\ UNCHANGED m_variant
    /\ UNCHANGED macOthers

\* macro_system.py: proc.speak returns, the loop starts
MacroSpoken ==
    /\ m_pc = "speak"
    /\ MacroBegin(m_name, 1, m_clock, m_log)
    /\ UNCHANGED <<m_variant, m_name, m_clock, m_runs>>
    /\ UNCHANGED macOthers

\* proc.execute(cmd) returns after d tenths; asyncio.sleep(0.3) is entered
MacroExecuted(d) ==
    /\ m_pc = "exec"
    /\ m_clock' = m_clock + d
    /\ m_log' = Append(m_log, [ev |-> "end", cmd |-> MacroSteps(m_name)[m_i],
                               at |-> m_clock'])
    /\ m_pc' = "sleep"
    /\ UNCHANGED <<m_variant, m_name, m_i, m_runs>>
    /\ UNCHANGED macOthers

\* asyncio.sleep(0.3) returns: the next step, or the end of the loop
MacroSlept ==
    /\ m_pc = "sleep"
    /\ m_clock' = m_clock + PauseTenths
    /\ IF m_i < Len(MacroSteps(m_name))
       THEN MacroBegin(m_name, m_i + 1, m_clock', m_log)
       ELSE m_pc' = "done" /\ UNCHANGED <<m_i, m_log>>
    /\ UNCHANGED <<m_variant, m_name, m_runs>>
    /\ UNCHANGED macOthers

NextMac ==
    \/ \E name \in MacroNames : MacroRun(name)
    \/ MacroSpoken
    \/ \E d \in ExecTenths : MacroExecuted(d)
    \/ MacroSlept

(***************************************************************************)
(* FloatingWidget (src/floating_widget.py)                                 *)
(***************************************************************************)
\* "idle, listening, speaking, thinking"
WidgetStates == {"idle", "listening", "speaking", "thinking"}

NoUpdate == [cmd |-> "none", arg |-> "none"]

FwIdle ==
    /\ f_queue = <<>>
    /\ f_state = "off"
    /\ f_pc = "off"
    /\ f_cur = NoUpdate
    /\ f_puts = 0
    /\ f_issued = <<>>
    /\ f_applied = <<>>

\* FloatingWidget.__init__: state "idle", an empty update_queue
FwInit ==
    /\ f_queue = <<>>
    /\ f_state = "idle"
    /\ f_pc = "idle"
    /\ f_cur = NoUpdate
    /\ f_puts = 0
    /\ f_issued = <<>>
    /\ f_applied = <<>>

fwOthers == <<retryVars, llmVars, sessVars, appVars, scanVars, sugVars,
               webVars, detVars, wizVars, macVars, bkVars>>

\* set_state(state), from the assistant thread: update_queue.put
FwSetState(state) ==
    /\ f_puts < MaxUpdates
    /\ f_puts' = f_puts + 1
    /\ f_queue' = Append(f_queue, [cmd |-> "state", arg |-> state])
    /\ f_issued' = Append(f_issued, state)
    /\ UNCHANGED <<f_state, f_pc, f_cur, f_applied>>
    /\ UNCHANGED fwOthers

\* show_message(message), from the assistant thread: update_queue.put
FwShowMessage ==
    /\ f_puts < MaxUpdates
    /\ f_puts' = f_puts + 1
    /\ f_queue' = Append(f_queue, [cmd |-> "message", arg |-> "text"])
    /\ UNCHANGED <<f_state, f_pc, f_cur, f_issued, f_applied>>
    /\ UNCHANGED fwOthers

\* the 50 ms timer of the UI thread calls process_updates
FwProcessUpdates ==
    /\ f_pc = "idle"
    /\ f_pc' = "loop"
    /\ UNCHANGED <<f_queue, f_state, f_cur, f_puts, f_issued, f_applied>>
    /\ UNCHANGED fwOthers

\* "while not self.update_queue.empty(): update = get_nowait()", or the end
\* of the loop and root.after(50, self.process_updates)
FwLoop ==
    /\ f_pc = "loop"
    /\ IF f_queue = <<>>
       THEN f_pc' = "idle" /\ UNCHANGED <<f_queue, f_cur>>
       ELSE /\ f_cur' = f_queue[QueuePick(f_queue)]
            /\ f_queue' = QueueWithout(f_queue, QueuePick(f_queue))
            /\ f_pc' = "apply"
    /\ UNCHANGED <<f_state, f_puts, f_issued, f_applied>>
    /\ UNCHANGED fwOthers

\* "if cmd == "state": self.state = update[1]"; a message is dropped
FwApply ==
    /\ f_pc = "apply"
    /\ IF f_cur.cmd = "state"
       THEN f_state' = f_cur.arg /\ f_applied' = Append(f_applied, f_cur.arg)
       ELSE UNCHANGED <<f_state, f_applied>>
    /\ f_cur' = NoUpdate
    /\ f_pc' = "loop"
    /\ UNCHANGED <<f_queue, f_puts, f_issued>>
    /\ UNCHANGED fwOthers

NextFw ==
    \/ \E state \in WidgetStates : FwSetState(state)
    \/ FwShowMessage
    \/ FwProcessUpdates
    \/ FwLoop
    \/ FwApply

(***************************************************************************)
(* The decorated backends (src/llm_manager.py, src/async_utils.py)         *)
(***************************************************************************)
\* "retries: int = 3", used by "@async_retry()" on get_gemini_response
DefaultRetries == 3

\* "@async_retry(retries=2)" on get_ollama_response
OllamaRetries == 2

\* "backoff: int = 2"
DefaultBackoff == 2

RetriesOf(provider) ==
    IF provider = "gemini" THEN DefaultRetries ELSE OllamaRetries

\* aiohttp.ClientError and asyncio.TimeoutError out of session.post
TransientErrors == {"client_error", "timeout"}

\* what one "async with session.post(...)" block can end in: a reply, a
\* transient network error, or an answer without the expected fields
RequestOutcomes == TransientErrors \cup {"reply", "bad_answer"}

\* "except Exception as e: logger.warning(...); continue" around the request,
\* and the "error" in data branch of the Ollama body
CaughtInBody(outcome) == outcome # "reply"

BkIdle ==
    /\ b_provider = "gemini"
    /\ b_key = FALSE
    /\ b_models = 0
    /\ b_pc = "off"
    /\ b_attempt = 0
    /\ b_model = 0
    /\ b_requests = <<>>
    /\ b_sleeps = <<>>
    /\ b_result = "none"

\* the wrapper is entered: attempt = 1, func about to be awaited
BkInit ==
    /\ b_provider \in {"gemini", "ollama"}
    /\ b_key \in BOOLEAN
    /\ b_models \in 1..MaxModels
    /\ b_pc = "enter"
    /\ b_attempt = 1
    /\ b_model = 0
    /\ b_requests = <<>>
    /\ b_sleeps = <<>>
    /\ b_result = "none"

bkOthers == <<retryVars, llmVars, sessVars, appVars, scanVars, sugVars,
              webVars, detVars, wizVars, macVars, fwVars>>

bkConfig == <<b_provider, b_key, b_models>>

\* the body up to the model loop: Gemini without a key returns None, else
\* the session getter returns and the loop starts
BkEnter ==
    /\ b_pc = "enter"
    /\ IF b_provider = "gemini" /\ ~b_key
       THEN b_pc' = "returned" /\ b_result' = "None" /\ b_model' = b_model
       ELSE b_pc' = "request" /\ b_result' = b_result /\ b_model' = 1
    /\ UNCHANGED <<bkConfig, b_attempt, b_requests, b_sleeps>>
    /\ UNCHANGED bkOthers

\* a statement of the body outside the per-model try raises (the session
\* getter constructing aiohttp.ClientSession): the wrapper's handler runs
BkEnterRaises ==
    /\ b_pc = "enter"
    /\ b_provider = "ollama" \/ b_key
    /\ b_pc' = AfterFailure(b_attempt, RetriesOf(b_provider))
    /\ UNCHANGED <<bkConfig, b_attempt, b_model, b_requests, b_sleeps,
                   b_result>>
    /\ UNCHANGED bkOthers

\* one round of "for model in models": the request ends in `outcome`.  A
\* reply is returned, an exception caught in the body goes on to the next
\* model (None after the last), any other reaches the wrapper's handler
BkRequest(outcome) ==
    /\ b_pc = "request"
    /\ b_requests' = Append(b_requests,
           [attempt |-> b_attempt, model |-> b_model, outcome |-> outcome])
    /\ IF outcome = "reply"
       THEN b_pc' = "returned" /\ b_result' = "reply" /\ b_model' = b_model
       ELSE IF ~CaughtInBody(outcome)
       THEN /\ b_pc' = AfterFailure(b_attempt, RetriesOf(b_provider))
            /\ b_result' = b_result /\ b_model' = b_model
       ELSE IF b_model < b_models
       THEN b_pc' = "request" /\ b_result' = b_result
            /\ b_model' = b_model + 1
       ELSE b_pc' = "returned" /\ b_result' = "None" /\ b_model' = b_model
    /\ UNCHANGED <<bkConfig, b_attempt, b_sleeps>>
    /\ UNCHANGED bkOthers

\* "await asyncio.sleep(sleep_time)" and the next round of the wrapper
BkSleep ==
    /\ b_pc = "sleeping"
    /\ b_sleeps' = Append(b_sleeps, SleepTime(DefaultBackoff, b_attempt, TRUE))
    /\ b_attempt' = b_attempt + 1
    /\ b_pc' = "enter"
    /\ UNCHANGED <<bkConfig, b_model, b_requests, b_result>>
    /\ UNCHANGED bkOthers

NextBk ==
    \/ BkEnter
    \/ BkEnterRaises
    \/ \E outcome \in RequestOutcomes : BkRequest(outcome)
    \/ BkSleep

(***************************************************************************)
(* Specifications                                                          *)
(***************************************************************************)
InitRetry ==
    RetryInit /\ LLMIdle /\ SessIdle /\ AppIdle /\ ScanIdle /\ SugIdle
    /\ WebIdle /\ DetIdle /\ WizIdle /\ MacIdle /\ FwIdle /\ BkIdle

SpecRetry == InitRetry /\ [][NextRetry]_vars

InitLLM ==
    LLMInit /\ RetryIdle /\ SessIdle /\ AppIdle /\ ScanIdle /\ SugIdle
    /\ WebIdle /\ DetIdle /\ WizIdle /\ MacIdle /\ FwIdle /\ BkIdle

SpecLLM == InitLLM /\ [][NextLLM]_vars

InitSession ==
    SessInit /\ RetryIdle /\ LLMIdle /\ AppIdle /\ ScanIdle /\ SugIdle
    /\ WebIdle /\ DetIdle /\ WizIdle /\ MacIdle /\ FwIdle /\ BkIdle

SpecSession == InitSession /\ [][NextSession]_vars

SpecSessionLoop == InitSession /\ [][NextSessionLoop]_vars

InitApp ==
    AppInit /\ RetryIdle /\ LLMIdle /\ SessIdle /\ ScanIdle /\ SugIdle
    /\ WebIdle /\ DetIdle /\ WizIdle /\ MacIdle /\ FwIdle /\ BkIdle

SpecApp == InitApp /\ [][NextApp]_vars

InitScan ==
    ScanInit /\ RetryIdle /\ LLMIdle /\ SessIdle /\ AppIdle /\ SugIdle
    /\ WebIdle /\ DetIdle /\ WizIdle /\ MacIdle /\ FwIdle /\ BkIdle

SpecScan == InitScan /\ [][NextScan]_vars

InitSug ==
    SugInit /\ RetryIdle /\ LLMIdle /\ SessIdle /\ AppIdle /\ ScanIdle
    /\ WebIdle /\ DetIdle /\ WizIdle /\ MacIdle /\ FwIdle /\ BkIdle

SpecSug == InitSug /\ [][NextSug]_vars

InitWeb ==
    WebInit /\ RetryIdle /\ LLMIdle /\ SessIdle /\ AppIdle /\ ScanIdle
    /\ SugIdle /\ DetIdle /\ WizIdle /\ MacIdle /\ FwIdle /\ BkIdle

SpecWeb == InitWeb /\ [][NextWeb]_vars

SpecWebMode == InitWeb /\ [][NextWebMode]_vars

InitDet ==
    DetInit /\ RetryIdle /\ LLMIdle /\ SessIdle /\ AppIdle /\ ScanIdle
    /\ SugIdle /\ WebIdle /\ WizIdle /\ MacIdle /\ FwIdle /\ BkIdle

SpecDet == InitDet /\ [][NextDet]_vars

InitWiz ==
    WizInit /\ RetryIdle /\ LLMIdle /\ SessIdle /\ AppIdle /\ ScanIdle
    /\ SugIdle /\ WebIdle /\ DetIdle /\ MacIdle /\ FwIdle /\ BkIdle

SpecWiz == InitWiz /\ [][NextWiz]_vars

InitMac ==
    MacInit /\ RetryIdle /\ LLMIdle /\ SessIdle /\ AppIdle /\ ScanIdle
    /\ SugIdle /\ WebIdle /\ DetIdle /\ WizIdle /\ FwIdle /\ BkIdle

SpecMac == InitMac /\ [][NextMac]_vars

InitFw ==
    FwInit /\ RetryIdle /\ LLMIdle /\ SessIdle /\ AppIdle /\ ScanIdle
    /\ SugIdle /\ WebIdle /\ DetIdle /\ WizIdle /\ MacIdle /\ BkIdle

SpecFw == InitFw /\ [][NextFw]_vars

InitBk ==
    BkInit /\ RetryIdle /\ LLMIdle /\ SessIdle /\ AppIdle /\ ScanIdle
    /\ SugIdle /\ WebIdle /\ DetIdle /\ WizIdle /\ MacIdle /\ FwIdle

SpecBk == InitBk /\ [][NextBk]_vars

(***************************************************************************)
(* Claims                                                                  *)
(***************************************************************************)
\* The sequence is strictly increasing
Increasing(h) == \A i, j \in 1..Len(h) : i < j => h[i] < h[j]

\* C1: the main loop handles the events of the shared input queue strictly
\* in enqueue order: of two handled events the one enqueued first is handled
\* first (no reordering, no event handled twice), and one event's handling
\* is complete before the next event is taken, so the event in handling is
\* always the last one taken.
C1_FifoHandling ==
    /\ Increasing(a_handled)
    /\ a_current # NoItem <=> a_thread \in {"stt", "exec"}
    /\ a_current # NoItem =>
          /\ a_handled # <<>>
          /\ a_current.seq = a_handled[Len(a_handled)]
    /\ a_thread = "waiting" => a_current = NoItem

\* the second handled event is in handling while a later one waits
C1_Witness ==
    /\ Len(a_handled) = 2
    /\ a_thread = "exec"
    /\ a_current.seq = a_handled[2]
    /\ a_queue # <<>>
    /\ a_queue[1].seq > a_current.seq

\* A step that is one invocation of shutdown()
ShutdownStep == a_shutdownCalls' = a_shutdownCalls + 1

\* What every shutdown() invocation leaves behind
ShutdownPost ==
    /\ ~a_running
    /\ a_tray # "started"
    /\ a_widget # "live"
    /\ a_full_gui # "live"
    /\ ~a_shutdownError
    /\ a_variant = "compat" => a_shutdown_event /\ a_tts # "on"

ShutdownView ==
    <<a_running, a_shutdown_event, a_tray, a_widget, a_full_gui, a_detector,
      a_processor, a_tts, a_shutdownError>>

C3_CrashStillCleansUp ==
    (a_thread = "done" /\ a_raised) =>
        /\ a_detector # "on"
        /\ a_processor # "on"
        /\ a_tts # "on"
        /\ ~a_running

\* Number of calls of func made so far
RetryCalls == Len(r_outcomes)

AllRetried(s) == \A i \in 1..Len(s) : s[i] = "retried"

\* C4: with retries = N, an operation that raises a retried exception on its
\* first k calls (0 <= k < N) and then succeeds makes the wrapper return the
\* value of call k+1 after exactly k+1 calls and exactly k backoff sleeps;
\* while fewer than N calls have failed the wrapper has not given up, and
\* after returning it makes no further call.
C4_RetrySucceedsAfterK ==
    /\ (AllRetried(r_outcomes) /\ RetryCalls < r_retries)
          => /\ r_pc \in {"attempt", "sleeping"}
             /\ r_raised = 0
    /\ (RetryCalls >= 1 /\ r_outcomes[RetryCalls] = "ok"
        /\ AllRetried(SubSeq(r_outcomes, 1, RetryCalls - 1)))
          => /\ r_pc = "returned"
             /\ r_result = RetryCalls
             /\ RetryCalls <= r_retries
             /\ Len(r_sleeps) = RetryCalls - 1
             /\ r_raised = 0
             /\ ~ ENABLED NextRetry

\* retries = 3, two failures, then success: returned with two sleeps
C4_Witness ==
    /\ r_retries = 3
    /\ r_outcomes = <<"retried", "retried", "ok">>
    /\ r_pc = "returned"
    /\ Len(r_sleeps) = 2

\* C5: with retries = N >= 1, an operation that raises a retried exception
\* on every call is called exactly N times, with exactly N-1 sleeps and none
\* after the last failure, and the wrapper re-raises the exception of the
\* N-th attempt; it returns no value and raises no earlier exception.
C5_RetryExhausted ==
    /\ RetryCalls <= r_retries
    /\ (AllRetried(r_outcomes) /\ RetryCalls = r_retries)
          => /\ r_pc = "raised"
             /\ r_raised = r_retries
             /\ r_result = 0
             /\ Len(r_sleeps) = r_retries - 1
             /\ ~ ENABLED NextRetry
    /\ (AllRetried(r_outcomes) /\ r_pc = "raised")
          => RetryCalls = r_retries

\* retries = 3, three failures: raised with the third exception, two sleeps
C5_Witness ==
    /\ r_retries = 3
    /\ r_outcomes = <<"retried", "retried", "retried">>
    /\ r_pc = "raised"
    /\ r_raised = 3
    /\ Len(r_sleeps) = 2

\* The credential or endpoint a provider needs is configured
CredentialPresent(p) == IF p = "gemini" THEN l_gemini_key ELSE l_ollama_url

RECURSIVE KeepConfigured(_)
KeepConfigured(s) ==
    IF s = <<>> THEN <<>>
    ELSE IF CredentialPresent(Head(s))
         THEN <<Head(s)>> \o KeepConfigured(Tail(s))
         ELSE KeepConfigured(Tail(s))

\* C6: get_llm_response tries providers in the order [gemini, ollama] when
\* LOCAL_ONLY is false and [ollama, gemini] when it is true, with every
\* provider whose credential or endpoint is absent excluded, for every value
\* of the provider argument; an excluded provider is never started.
C6_OrderExcludesUnconfigured ==
    l_pc \in {"loop", "awaiting", "done"} =>
        /\ l_providers = KeepConfigured(BaseOrder(l_local_only))
        /\ \A i \in 1..Len(l_started) : CredentialPresent(l_started[i])

\* C7: with neither a Gemini key nor an Ollama endpoint configured,
\* get_llm_response returns the "no provider available" message, invokes no
\* provider function and sends no status event.
C7_NoProviderNoCall ==
    (~l_gemini_key /\ ~l_ollama_url) =>
        /\ l_started = <<>>
        /\ l_events = <<>>
        /\ l_pc = "done" => l_result = NoProviderMsg

\* Positions of the trial order whose backend yields a non-empty reply
Replying ==
    {i \in 1..Len(l_providers) :
        BackendResult(l_providers[i], l_oracle, l_gemini_key,
                      l_ollama_url) = "reply"}

Least(S) == CHOOSE i \in S : \A j \in S : i <= j

\* C8: get_llm_response returns the reply of the first provider, in trial
\* order, that yields a non-empty reply, and starts no provider after it;
\* when every tried provider returns an empty reply or raises it returns
\* exactly "All LLM providers failed."; a provider that raises never ends
\* the call without a returned value.
C8_FirstNonEmptyReply ==
    /\ l_pc = "done" /\ l_providers # <<>> =>
          IF Replying # {}
          THEN /\ l_result = ReplyOf(l_providers[Least(Replying)])
               /\ l_started = SubSeq(l_providers, 1, Least(Replying))
          ELSE /\ l_result = AllFailedMsg
               /\ l_started = l_providers
    /\ l_pc \in {"loop", "awaiting"} =>
          /\ l_result = NoResult
          /\ \A i \in Replying : Len(l_started) <= i

\* the first provider raised, the second one replied, and its reply is the
\* returned value
C8_Witness ==
    /\ l_pc = "done"
    /\ Len(l_started) = 2
    /\ l_oracle[l_started[1]] = "raise"
    /\ l_result = ReplyOf(l_started[2])
    /\ l_gemini_key /\ l_ollama_url

\* every provider failed (one empty, one raising)
C8_WitnessAllFailed ==
    /\ l_pc = "done"
    /\ l_result = AllFailedMsg
    /\ Len(l_started) = 2
    /\ \E p \in ProviderNames : l_oracle[p] = "raise"

\* The events the callback must have seen for the first n started providers,
\* the last of them still being awaited when open is TRUE
RECURSIVE ExpectedEvents(_, _)
ExpectedEvents(n, open) ==
    IF n = 0 THEN <<>>
    ELSE LET p == l_started[n]
             out == BackendResult(p, l_oracle, l_gemini_key, l_ollama_url)
         IN  ExpectedEvents(n - 1, FALSE)
             \o <<Ev(p, "start")>>
             \o (IF open THEN <<>>
                 ELSE IF out = "raise" THEN <<Ev(p, "error")>>
                 ELSE <<Ev(p, "end")>>)

\* C9: with a status callback, for each provider p that is tried the
\* callback receives llm_p_start before the attempt and then exactly one of
\* llm_p_end (the call returned, even with an empty reply) or llm_p_error
\* (the call raised), and both events of one provider precede the start
\* event of the next; without a callback nothing is sent.
C9_CallbackEventOrder ==
    IF l_callback
    THEN l_events = ExpectedEvents(Len(l_started), l_pc = "awaiting")
    ELSE l_events = <<>>

\* start/error of a raising provider, then start/end of the next one
C9_Witness ==
    /\ l_callback
    /\ Len(l_events) = 4
    /\ l_events[2].phase = "error"
    /\ l_events[3].phase = "start"
    /\ l_events[3].prov # l_events[1].prov
    /\ l_events[4].phase = "end"

\* C10: under any interleaving of concurrent first-use callers (no
\* close_sessions() call has started), _get_or_create_gemini_session and
\* _get_or_create_ollama_session create at most one session object per
\* backend, and every caller receives that same session.
C10_OneSessionPerBackend ==
    c_closes = 0 =>
        /\ \A b \in Backends : Cardinality(s_made[b]) <= 1
        /\ \A p \in Callers :
              s_pc[p] = "done" => s_made[s_backend[p]] = {s_ret[p]}

\* all callers raced for the same backend and all have returned
C10_Witness ==
    /\ c_closes = 0
    /\ \A p \in Callers : s_pc[p] = "done" /\ s_backend[p] = "gemini"
    /\ \A p, q \in Callers : s_ret[p] = s_ret[q] /\ s_ret[p] # 0

\* C11: a get-or-create call entered after a close_sessions() call has
\* completed (and with no later close_sessions() started) returns a session
\* that is not None and has not been closed.
C11_FreshSessionAfterClose ==
    \A p \in Callers :
        (s_pc[p] = "done" /\ s_epoch[p] >= 1 /\ c_closes = s_epoch[p]) =>
            /\ s_ret[p] # 0
            /\ s_ret[p] \notin s_closed

\* the cache file the load found was present, younger than 24 hours and
\* newer than every registry Uninstall key that could be read
CacheWasFresh ==
    /\ k_pre.loaded
    /\ k_pre.cache.exists
    /\ k_pre.now - k_pre.cache.mtime < CacheDuration
    /\ \A k \in UninstallKeys :
          k_pre.regok[k] => k_pre.cache.mtime > k_pre.regtime[k]

\* C12: when the cache file exists, is less than 24 hours old and is newer
\* than the modification time of both registry Uninstall keys,
\* _load_apps_with_cache returns exactly the cached mapping, invokes none of
\* the four scan sources and does not rewrite the cache file.
C12_FreshCacheIsReturned ==
    CacheWasFresh =>
        /\ k_result.kind = "value"
        /\ k_result.apps = k_pre.cache.content
        /\ k_apps = k_pre.cache.content
        /\ k_scans = <<>>
        /\ ~k_wrote
        /\ k_cache = k_pre.cache

\* a non-empty cache, newer than both readable keys, was returned
C12_Witness ==
    /\ k_op = "init"
    /\ CacheWasFresh
    /\ \A k \in UninstallKeys : k_pre.regok[k]
    /\ Count(k_pre.cache.content) = 2
    /\ k_built
    /\ k_apps = k_pre.cache.content

\* C13: when the cache file is absent, is 24 hours old or older, or is not
\* newer than a registry Uninstall key's modification time,
\* _load_apps_with_cache runs all four scan sources in the order registry,
\* Start Menu, store, memory store, returns their merge and rewrites the
\* cache file with exactly the mapping it returned.
C13_StaleCacheIsRescanned ==
    (k_pre.loaded /\ ~CacheWasFresh) =>
        /\ k_scans = ScanSources
        /\ k_result.kind \in {"value", "message"}
        /\ k_wrote
        /\ k_cache.exists
        /\ k_cache.content = k_apps

\* C14: rescan_apps() that could delete the cache file performs a full scan
\* whatever the state of the cache was, sets self.apps to the scan result
\* and returns the message carrying len(self.apps).
C14_RescanAlwaysScans ==
    (k_op = "rescan" /\ k_result.kind # "error_message") =>
        /\ k_pre.loaded
        /\ ~k_pre.cache.exists
        /\ k_scans = ScanSources
        /\ k_result.kind = "message"
        /\ k_result.count = Count(k_apps)

\* C15: for every clock value, predictor answer and memory store content,
\* generate_suggestions() returns at most 3 suggestions, and whenever the
\* predictor returned a command the routine-based suggestion for that
\* command is the first element of the result.
C15_AtMostThreePredictionFirst ==
    g_pc = "returned" =>
        /\ Len(g_result) <= MaxSuggestions
        /\ g_pred \in Commands =>
              /\ g_result # <<>>
              /\ g_result[1] = Routine(g_pred)

\* a weekday morning: routine, frequent, morning and workday suggestions
\* were built and the fourth was cut off
C15_Witness ==
    /\ g_pc = "returned"
    /\ g_pred = "open chrome"
    /\ g_freq # <<>> /\ g_freq[1] = "play music"
    /\ g_hour = 8 /\ g_wday = 0
    /\ g_fail = "none"
    /\ Len(g_result) = 3
    /\ g_result[3].kind = "morning"

\* C16: an initialize() that runs while the agent is not initialised and
\* less than 500 MB of memory is available returns False at once:
\* is_initialized stays False, no engine, browser or context object is
\* created, no idle-cleanup task is started, and a navigate() that made the
\* call returns no page without touching active_tasks.
C16_LowMemoryRefused ==
    [][\A p \in WebCallers :
          (/\ w_calls' = w_calls + 1
           /\ w_pc'[p] # w_pc[p] \/ w_ret'[p] # w_ret[p]
           /\ ~w_init
           /\ w_avail_mb < MinAvailableMb) =>
              /\ w_pc'[p] = "done"
              /\ w_ret'[p] = IF w_op'[p] = "initialize" THEN "False"
                              ELSE "None"
              /\ ~w_init'
              /\ UNCHANGED <<webBrowser, w_cleanup, w_active>>]_vars

\* a navigate() was refused for low memory on an agent that never had a
\* browser
C16_Witness ==
    \E p \in WebCallers :
        /\ w_pc[p] = "done"
        /\ w_op[p] = "navigate"
        /\ w_why[p] = "low_memory"
        /\ w_ret[p] = "None"
        /\ w_avail_mb < MinAvailableMb
        /\ ~w_init
        /\ w_engines = 0
        /\ w_context = 0
        /\ w_cleanup = "none"

\* C17: an upgrade_mode call with an unknown mode name, or with "full" on a
\* host with less than 12 GB of RAM, returns False and leaves mode,
\* max_memory_mb, max_concurrent and vision_enabled as they were; on a host
\* with less than 12 GB the mode is never "full".
C17_UpgradeRejected ==
    /\ (/\ w_up.n > 0
        /\ \/ w_up.new_mode \notin KnownModes
           \/ w_up.new_mode = "full" /\ w_total_gb < FullModeMinGb) =>
           /\ w_up.ret = "False"
           /\ ModeSettings = w_up.before
    /\ w_total_gb < FullModeMinGb => w_mode # "full"

\* an 8 GB host, upgraded to balanced before, asked for "full" and kept
\* balanced
C17_Witness ==
    /\ w_total_gb = 8
    /\ w_up.n > 1
    /\ w_up.new_mode = "full"
    /\ w_up.ret = "False"
    /\ w_up.before.mode = "balanced"
    /\ w_mode = "balanced"
    /\ w_max_memory_mb = 600

\* the last two wake events, when both came from the same listening thread
SameRunPair == d_lastFire.gap # NoGap /\ d_lastFire.run = d_lastFire.prevRun

Gap == d_lastFire.gap

C19_FalseExactlyWhenBothExist ==
    wz_chk.called =>
        /\ wz_chk.ret = TRUE <=> (wz_chk.marker = FALSE \/ wz_chk.env = FALSE)
        /\ wz_chk.ret = FALSE <=> (wz_chk.marker = TRUE /\ wz_chk.env = TRUE)

\* the marker survives while the configuration file was deleted: it runs
C19_Witness ==
    /\ wz_chk.called
    /\ wz_chk.marker
    /\ ~wz_chk.env
    /\ wz_chk.ret
    /\ wz_runs = MaxRuns

IsConfigStep(call) == call \in {"write_env", "touch_marker", "Popen"}

ConfigSteps == <<"write_env", "touch_marker", "Popen">>

\* the key of the last finish() is non-empty and holds no "your_"
KeyAccepted ==
    /\ Len(wz_fin.key) > 0
    /\ \A i \in 1..(Len(wz_fin.key) - 4) :
           SubSeq(wz_fin.key, i, i + 4) # <<"y", "o", "u", "r", "_">>

\* the last finish() wrote nothing, launched nothing and went to page 2
FinishRefused ==
    /\ SelectSeq(wz_fin.log, IsConfigStep) = <<>>
    /\ wz_fin.envAfter = wz_fin.envBefore
    /\ wz_fin.markerAfter = wz_fin.markerBefore
    /\ wz_fin.page = 2
    /\ Pages[wz_fin.page + 1] = "api_keys"
    /\ wz_fin.open

\* the last finish() wrote the file, then the marker, then launched
FinishCompleted ==
    /\ SelectSeq(wz_fin.log, IsConfigStep) = ConfigSteps
    /\ wz_fin.log[Len(wz_fin.log)] = "Popen"
    /\ wz_fin.envAfter
    /\ wz_fin.markerAfter
    /\ ~ShouldRunWizard(wz_fin.markerAfter, wz_fin.envAfter)

\* C20 as stated: finish() writes the configuration file, creates the marker
\* and launches the assistant, in that order, if and only if the key is
\* non-empty and holds no "your_"; otherwise it writes nothing, creates no
\* marker, launches nothing and shows page 2.
C20_CompletesIffKeyAccepted ==
    wz_fin.called =>
        /\ KeyAccepted => FinishCompleted
        /\ ~KeyAccepted => FinishRefused

\* C20, amended: a refused key writes and launches nothing and shows page 2;
\* an accepted key makes finish() attempt the file, the marker and the launch
\* in that order, a step that raises ends it with an error dialog, and a
\* launch happens only after both files exist.
C20_RefusedOrOrderedSteps ==
    wz_fin.called =>
        /\ ~KeyAccepted => FinishRefused
        /\ KeyAccepted =>
               LET steps == SelectSeq(wz_fin.log, IsConfigStep) IN
               /\ steps = SubSeq(ConfigSteps, 1, Len(steps))
               /\ \/ FinishCompleted
                  \/ /\ Len(steps) < Len(ConfigSteps)
                     /\ wz_fin.log[Len(wz_fin.log)] = "showerror"
        /\ SelectSeq(wz_fin.log, IsConfigStep) # <<>> => KeyAccepted
        /\ Did(wz_fin.log, "Popen") => FinishCompleted

\* an accepted key that only resembles the placeholder: finish() completes
C20_Witness ==
    /\ wz_fin.called
    /\ wz_fin.key = NearKey
    /\ ~wz_fin.envBefore
    /\ FinishCompleted
    /\ wz_launches = 1
    /\ ~wz_open

\* the proc.execute calls of the finished run, in the order they began
Executed == [k \in 1..(Len(m_log) \div 2) |-> m_log[2 * k - 1].cmd]

\* C21: run(name) of a built-in macro executes exactly the steps of its table
\* entry in table order (four for "work mode"), each execute() ending before
\* the next begins and at least 0.3 s before it; a name that is not in the
\* table executes nothing.
C21_StepsInTableOrder ==
    m_pc = "done" =>
        /\ m_name \in {"work mode", "gaming mode", "shutdown"} =>
               /\ Executed = macros[m_name]
               /\ Len(m_log) = 2 * Len(macros[m_name])
               /\ \A k \in 1..Len(macros[m_name]) :
                      /\ m_log[2 * k - 1].ev = "begin"
                      /\ m_log[2 * k].ev = "end"
                      /\ m_log[2 * k].cmd = m_log[2 * k - 1].cmd
                      /\ k > 1 => m_log[2 * k - 1].at >= m_log[2 * k - 2].at + 3
        /\ m_name = "work mode" => Len(Executed) = 4
        /\ m_name \notin {"work mode", "gaming mode", "shutdown"} =>
               m_log = <<>>

\* "work mode" has run to its end in the variant that announces the macro
C21_Witness ==
    /\ m_pc = "done"
    /\ m_variant = "macro_system"
    /\ m_name = "work mode"
    /\ Len(m_log) = 8
    /\ m_log[8].cmd = "in spotify play lofi hip hop"
    /\ m_runs = MaxMacroRuns

\* C24: a pass of the listening loop made while the hot-key flag is set
\* pushes a wake event, whatever the audio state: also when the window is
\* below the silence gate or no block arrived, and inside the debounce window.
C24_HotkeyPassFires ==
    [][(/\ d_hotkey
        /\ d_running
        /\ d_thread = "alive"
        /\ d_run' = d_run
        /\ d_now' > d_now)
       => (/\ d_fireAt' = d_now'
           /\ d_lastFire'.manual
           /\ ~d_hotkey')]_vars

\* C25: once stop() was requested and the listening thread has left its loop,
\* the thread has ended and the audio input stream is closed, whatever the
\* state of audio_q; no hot-key stays registered after stop().
C25_StopEndsThread ==
    (~d_running /\ d_run > 0) =>
        /\ ~d_hooked
        /\ d_thread # "alive" => d_thread = "exited"

\* the main loop has finished an event without leaving the loop: it goes
\* back to poll from a taken event, from the transcription or from execute
EventFinished ==
    /\ a_variant = "standalone"
    /\ a_thread' = "poll"
    /\ \/ a_thread \in {"stt", "exec"}
       \/ a_thread = "waiting" /\ a_handled' # a_handled

\* C26: when the main loop has finished handling an event that does not end
\* the loop, it has set the widget and the tray (each one that exists) to
\* idle before it polls for the next event.
C26_IdleAfterEveryEvent ==
    [][EventFinished =>
           /\ a_widget # "none" => a_widgetState' = "idle"
           /\ a_tray # "none" => a_trayIcon' = "idle"]_vars

\* C27: while the assistant waits for the next event, the last state sent to
\* the widget equals the last state sent to the tray.
C27_WidgetAndTrayAgree ==
    (a_variant = "standalone" /\ a_thread = "waiting" /\ a_widget = "live"
     /\ a_tray = "started")
        => a_widgetState = a_trayIcon

\* C28: set_state and show_message only enqueue; self.state is what the drain
\* of the UI thread assigned last, the drain assigns the states in the order
\* they were issued, and once the queue is drained self.state is the argument
\* of the most recent set_state call.
C28_DrainedStateIsLastIssued ==
    /\ Len(f_applied) <= Len(f_issued)
    /\ f_applied = SubSeq(f_issued, 1, Len(f_applied))
    /\ f_state = IF f_applied = <<>> THEN "idle"
                 ELSE f_applied[Len(f_applied)]
    /\ (f_queue = <<>> /\ f_pc = "idle" /\ f_issued # <<>>) =>
           f_state = f_issued[Len(f_issued)]

\* three different states and a message were issued and all are drained
C28_Witness ==
    /\ f_queue = <<>>
    /\ f_pc = "idle"
    /\ f_puts = MaxUpdates
    /\ f_issued = <<"thinking", "listening", "idle">>
    /\ f_state = "idle"

\* the navigate() calls that are between "self.active_tasks += 1" and the
\* "finally" that undoes it
InNavigation == {p \in WebCallers : w_pc[p] \in {"await_page", "await_goto"}}

\* C29: active_tasks is never negative and counts exactly the navigate()
\* calls in progress, so every returned call, failed or not, has given back
\* what it took; a navigate() that failed returned no page.
C29_ActiveTasksBalanced ==
    /\ w_active >= 0
    /\ w_active = Cardinality(InNavigation)
    /\ \A p \in WebCallers :
           (w_pc[p] = "done" /\ w_op[p] = "navigate" /\ w_why[p] # "none")
               => w_ret[p] = "None"

\* both callers have returned from navigate(), one after a failed page load
\* and one after a resource-guard abort, and the counter is back at zero
C29_Witness ==
    /\ w_pc = <<"done", "done">>
    /\ w_op = <<"navigate", "navigate">>
    /\ w_why[1] = "nav_error"
    /\ w_why[2] = "resources"
    /\ w_engines > 0
    /\ w_active = 0

\* C30: once close() or the idle loop has closed the browser and a later
\* call has initialised the agent again, an idle-cleanup loop is running.
C30_CleanupLoopRunsAgain ==
    (w_closed > 0 /\ w_init /\ w_cpc = "idle") => w_cleanup = "running"

\* the preset of a mode as __init__ and the tier table give it; "full" has
\* no concurrency figure
PresetHolds(mode, memory_mb, concurrent, vision) ==
    CASE mode = "lightweight" ->
             memory_mb = 300 /\ concurrent = 1 /\ ~vision
      [] mode = "balanced" ->
             memory_mb = 600 /\ concurrent = 2 /\ vision
      [] mode = "full" -> memory_mb = 1000 /\ vision

\* C31: after construction and after any sequence of upgrade_mode calls the
\* derived settings are the preset of the current mode: lightweight = 300 MB,
\* 1 concurrent task, no vision; balanced = 600 MB, 2 concurrent tasks,
\* vision; full = 1000 MB, vision.
C31_SettingsMatchPreset ==
    PresetHolds(w_mode, w_max_memory_mb, w_max_concurrent, w_vision)

\* the heads-up suggestions among the returned ones, and the others
HeadsUps == {i \in DOMAIN g_result : g_result[i].kind = "reminder"}

Preceding == DOMAIN g_result \ HeadsUps

\* C32: at every hour of the day, when no memory store call raises, each of
\* the reminders due within the hour has its heads-up suggestion in the
\* returned list as long as fewer than three suggestions precede it.
C32_DueRemindersSuggested ==
    (g_pc = "returned" /\ g_fail = "none") =>
        LET room == MaxSuggestions - Cardinality(Preceding)
        IN  Cardinality(HeadsUps) = IF g_rem < room THEN g_rem ELSE room

\* the requests of the attempt that ended the call
LastAttemptRequests ==
    {i \in DOMAIN b_requests : b_requests[i].attempt = b_attempt}

\* C33: a provider whose every request failed with a transient network error
\* yields None only after the retry wrapper has made all its attempts, 3 for
\* Gemini and 2 for Ollama, with a backoff sleep between them.
C33_TransientErrorRetried ==
    (/\ b_pc = "returned"
     /\ b_result = "None"
     /\ LastAttemptRequests # {}
     /\ \A i \in DOMAIN b_requests :
            b_requests[i].outcome \in TransientErrors) =>
        /\ b_attempt = RetriesOf(b_provider)
        /\ Len(b_sleeps) = RetriesOf(b_provider) - 1

\* two calls, one by each caller, neither failed in initialisation and no
\* close has begun
BothUsedNoClose ==
    /\ w_calls = 2
    /\ \A p \in WebCallers : w_pc[p] # "idle" /\ w_why[p] # "init_error"
    /\ w_closes = 0
    /\ w_cleanup \in {"none", "running"}

\* C34: when two callers use the agent for the first time, concurrently or
\* not, and nothing fails or closes, at most one browser engine is launched
\* and at most one playwright, browser and context object is created.
C34_OneEngineForConcurrentFirstUse ==
    BothUsedNoClose => (w_engines <= 1 /\ w_nextObj <= 4)

\* the events put on the queue so far that are neither waiting in it nor
\* taken by the main loop
LostEvents ==
    {n \in 1..(a_nextSeq - 1) :
        /\ \A i \in DOMAIN a_queue : a_queue[i].seq # n
        /\ \A i \in DOMAIN a_handled : a_handled[i] # n}

\* C35: in main_standalone.py every event put on the input queue is either
\* still in the queue or was taken by the main loop, and by it once: a poll
\* that timed out leaves no blocking get behind that removes an event the
\* loop never handles.
C35_EveryEventDelivered ==
    a_variant = "standalone" =>
        /\ LostEvents = {}
        /\ \A i, j \in DOMAIN a_handled :
               a_handled[i] = a_handled[j] => i = j

\* C36: every item on the input queue is an (event_type, payload) pair, so
\* the main loop's unpacking of a dequeued item never fails.
C36_QueueItemsArePairs ==
    \A i \in DOMAIN a_queue : a_queue[i].type # "BARE"

\* C37: with close_sessions() and the session getters running as coroutines
\* of one event loop, the loop's thread never blocks acquiring the session
\* lock while close_sessions() holds it suspended at an await.
C37_LockNeverBlocksLoop ==
    ~(LoopBlocked /\ CloserSuspended /\ s_lock = Closer)

BusyStates == {"listening", "thinking"}

\* C38: while the main loop of main_standalone.py stays at the await of an
\* event's transcription or execution, a widget showing listening or
\* thinking goes on showing one of the two: the preload task does not set it
\* to idle in between.
C38_BusyWhileHandling ==
    [][(/\ a_thread \in {"stt", "exec"}
        /\ a_thread' = a_thread
        /\ a_widgetState \in BusyStates) => a_widgetState' \in BusyStates]_vars

\* C39: when start() has gone on into show_widget(), the wizard it ran has
\* launched no assistant process of its own: one assistant runs, not two.
C39_OneAssistantAfterWizard ==
    wz_start = "widget" => wz_launches = wz_base

====
